---- MODULE Spec2Model ----
(***************************************************************************)
(* Model of the resilient message-broker client core of wb-go/wbf:         *)
(*   - retry.Do, retry.DoContext        (src/retry/retry.go)               *)
(*   - kafkav2.Processor / dlq.DLQ      (src/kafka/kafka-v2, src/kafka/dlq)*)
(*   - rabbitmq.RabbitClient            (src/rabbitmq/client.go)           *)
(*   - rabbitmq.Publisher               (src/rabbitmq/publisher.go)        *)
(*   - rabbitmq.Consumer                (src/rabbitmq/consumer.go)         *)
(* Each subsystem has its own specification (SpecRetry, SpecProc,          *)
(* SpecRabbit, SpecPublish, SpecConsumer); the variables of the other      *)
(* subsystems stay at their idle values.                                   *)
(***************************************************************************)
EXTENDS Integers, Sequences, FiniteSets, TLC

VARIABLES
    \* ---- retry executor (retry.Do / retry.DoContext) ----
    rKind,        \* which executor runs: "Do" or "DoContext"
    rPc,          \* position in the executor: "loop", "sleep", "done"
    rStrategy,    \* retry.Strategy: [Attempts, Delay, Backoff2] (Backoff in halves)
    rI,           \* loop index i
    rDelay,       \* local delay
    rErr,         \* local err: 0 = nil, k = the error of the k-th invocation of fn
    rRet,         \* returned value: NotReturned, Nil, ErrOf(k), CtxErr
    rOutcomes,    \* history of fn invocations: TRUE = fn returned nil
    rSleeps,      \* history of the waits made between invocations
    rCtxDone,     \* DoContext only: the caller's context is cancelled
    \* ---- kafkav2.Processor (processWithRetry, Start) and dlq.DLQ ----
    pPc,          \* position of the processor: "new", "invalid", "ready", "fetch",
                  \*   "handler", "backoff", "commitOk", "exhausted", "finalCommit", "stopped"
    pCfg,         \* Processor fields: [maxAttempts, baseRetryDelay, maxRetryDelay, dlq]
    pNext,        \* offset of the next message the reader delivers
    pMsg,         \* msg: the message being processed (0 = none yet)
    pAttempt,     \* attempt
    pLastErr,     \* lastErr: 0 = nil, k = the error of the k-th handler invocation
    pBackoff,     \* currentBackoff
    pJitter,      \* jitter of the wait in progress
    pCtxDone,     \* ctx is cancelled
    hCalls,       \* per message: outcomes of the handler invocations (TRUE = nil)
    pCommitTries, \* per message: calls of consumer.Commit
    pCommitted,   \* per message: calls of consumer.Commit that succeeded
    dlqTries,     \* per message: calls of dlq.PublishError
    dlqTopic,     \* envelopes the DLQ producer sent successfully, in order
    \* ---- rabbitmq.RabbitClient ----
    conn,         \* c.conn: id of the current connection (0 = nil)
    notify,       \* c.notify: id of the connection whose close channel it is (0 = nil)
    closed,       \* c.closed
    cancelled,    \* c.cancel() was called: c.ctx is done
    conns,        \* per connection id: [state, registered, notifErr]
                  \*   state: "none" (never dialed), "open", "lost" (closed by an error),
                  \*          "closed" (closed by Connection.Close)
                  \*   registered: NotifyClose was called on it
                  \*   notifErr: an error sits unread in its close channel
    watcher,      \* per connection id, the watchConnection goroutine connect started
                  \*   for it: [pc, ch]; ch = the channel it selects on
    recon,        \* per connection id, the reconnectLoop goroutine its watcher started:
                  \*   [pc, conn, old, attempt]
    closer,       \* per caller of Close: [pc, won, ret]
    getter,       \* per caller of GetChannel: [pc, conn, ret, afterClose, sawConnecting]
    channels,     \* channels opened by GetChannel: [by, on, cur]; cur = c.conn at that time
    \* ---- rabbitmq.Publisher.Publish (its attempts run under retry.DoContext) ----
    pubPc,        \* position in the closure Publish retries: "off" (no Publish call),
                  \*   "idle" (outside the closure), "send" (channel acquired),
                  \*   "defer" (the closure returns, its deferred ch.Close() is due)
    pubCh,        \* channels the call holds open
    pubSent,      \* err == nil after ch.PublishWithContext in the attempt in progress
    pubLog,       \* history of the attempts: [acq, sent]; acq = what GetChannel answered
    pubClientClosed, \* p.client.closed
    pubClosedAtCall, \* p.client.closed at the time Publish was called
    \* ---- rabbitmq.Consumer (consume, worker, processDelivery) ----
    cPc,          \* position in consume: "off" (no consumer), "getChannel", "subscribe",
                  \*   "spawn", "wait" (wg.Wait), "defer", "returned"
    cWorkersIn,   \* cfg.Workers as handed to NewConsumer
    cCfg,         \* c.config: [Workers, AutoAck, Ask, Nack]
    cAttempts,    \* c.client.config.ConsumingStrat.Attempts
    cCh,          \* channels consume holds open
    cRet,         \* what consume returns
    cCtxDone,     \* ctx of Start / consume is cancelled
    cClientDone,  \* the client was closed: c.client.Context() is done
    cCancelCalled, \* consume called cancel() of workerCtx
    msgsClosed,   \* the delivery channel msgs is closed
    cNext,        \* the next delivery msgs hands out (deliveries are 1..MaxDeliveries)
    wk,           \* per worker goroutine: [pc, msg, i, res]
                  \*   pc: "none" (not started), "recv", "handler", "wait",
                  \*       "ack", "exit"
    hCount,       \* per delivery: handler invocations that returned
    hLast,        \* per delivery: what the last one returned: "none", "nil", "err"
    cAcks,        \* per delivery: the acknowledgments issued, in order
    cDone,        \* deliveries whose processDelivery returned
    \* ---- rabbitmq.Consumer.Start (the loop around consume) ----
    sPc,          \* position in Start: "off" (Start is not modelled: consume alone),
                  \*   "select", "healthy" (the c.client.Healthy() test), "backoff"
                  \*   (in backoffWait), "consume" (in c.consume), "returned"
    sRet,         \* what Start returned
    sCalls,       \* calls of c.consume made so far
    sFailsNoWait, \* failed consume calls since the last elapsed backoff wait (history)
    \* ---- dlq.DLQ.PublishError (one call, on its own) ----
    dqPc,         \* position in PublishError: "off" (no call), "marshal", "send", "done"
    dqIn,         \* the arguments: [msg, err, attempt]
    dqMarshalErr, \* errMarshal != nil
    dqVal,        \* val, the bytes handed to d.producer.Send
    dqSends,      \* calls of d.producer.Send made
    dqSendErr,    \* errSend != nil
    dqRet,        \* what PublishError returned
    \* ---- the delay of the reconnect waits (reconnectLoop, Start/backoffWait) ----
    dlKind,       \* "off", "reconnectLoop" or "backoffWait": whose delay is followed
    dlStrategy,   \* c.config.ReconnectStrat
    dlDelay,      \* delay (reconnectLoop), currentDelay (Start)
    dlLast,       \* the duration of the last wait made
    dlWaits,      \* waits made so far
    \* ---- transaction manager: ExecuteInTransaction ----
    txPc,         \* "off" (no call), "attempt" (about to call doTransaction), "wait"
                  \*   (in the select after a retryable failure), "done"
    txCfg,        \* the manager: [maxAttempts, baseRetryDelay, maxRetryDelay]
    txAttempt,    \* attempt
    txBackoff,    \* currentBackoff
    txLog,        \* what each doTransaction call returned: [stage, retryable]: where
                  \*   it failed ("none": it did not), and isRetryableError(err)
    txFn,         \* invocations of fn
    txWaits,      \* waits that elapsed
    txRet,        \* what ExecuteInTransaction returned
    txCtxDone,    \* ctx is cancelled
    \* ---- rabbitmq.NewClient (one call; its effects are on the client's fields) ----
    ncPc,         \* "off" (no call), "check", "dial", "install", "spawn", "returned"
    ncIn,         \* the argument cfg: [URL, ConnectTimeout, Heartbeat]
    ncCfg,        \* client.config once the client is built
    ncRet,        \* what NewClient returned: [client, err]
    ncDials,      \* calls of amqp091.DialConfig made
    ncDialErr,    \* the dial failed
    \* ---- dbpg.balancer ----
    bMax,         \* b.max
    bIdx,         \* b.idx
    bMu,          \* b.mu: the caller that holds it, 0 when it is free
    bCaller,      \* per caller of index(): [pc, res]
    bLog          \* the results of index() in the order they were read: [by, res]

retryVars == <<rKind, rPc, rStrategy, rI, rDelay, rErr, rRet, rOutcomes, rSleeps, rCtxDone>>

procVars == <<pPc, pCfg, pNext, pMsg, pAttempt, pLastErr, pBackoff, pJitter, pCtxDone,
              hCalls, pCommitTries, pCommitted, dlqTries, dlqTopic>>

rabbitVars == <<conn, notify, closed, cancelled, conns, watcher, recon, closer, getter,
                channels>>

pubVars == <<pubPc, pubCh, pubSent, pubLog, pubClientClosed, pubClosedAtCall>>

consVars == <<cPc, cWorkersIn, cCfg, cAttempts, cCh, cRet, cCtxDone, cClientDone,
              cCancelCalled, msgsClosed, cNext, wk, hCount, hLast, cAcks, cDone>>

startVars == <<sPc, sRet, sCalls, sFailsNoWait>>

dlqVars == <<dqPc, dqIn, dqMarshalErr, dqVal, dqSends, dqSendErr, dqRet>>

delayVars == <<dlKind, dlStrategy, dlDelay, dlLast, dlWaits>>

txVars == <<txPc, txCfg, txAttempt, txBackoff, txLog, txFn, txWaits, txRet, txCtxDone>>

ncVars == <<ncPc, ncIn, ncCfg, ncRet, ncDials, ncDialErr>>

balVars == <<bMax, bIdx, bMu, bCaller, bLog>>

vars == <<retryVars, procVars, rabbitVars, pubVars, consVars, startVars, dlqVars,
          delayVars, txVars, ncVars, balVars>>

otherThanRetry ==
    <<procVars, rabbitVars, pubVars, consVars, startVars, dlqVars, delayVars, txVars, ncVars, balVars>>
otherThanProc ==
    <<retryVars, rabbitVars, pubVars, consVars, startVars, dlqVars, delayVars, txVars, ncVars, balVars>>
otherThanRabbit ==
    <<retryVars, procVars, pubVars, consVars, startVars, dlqVars, delayVars, txVars, ncVars, balVars>>
otherThanPublish ==
    <<procVars, rabbitVars, consVars, startVars, dlqVars, delayVars, txVars, ncVars, balVars>>
otherThanConsumer ==
    <<retryVars, procVars, rabbitVars, pubVars, startVars, dlqVars, delayVars, txVars, ncVars, balVars>>
otherThanStart ==
    <<retryVars, procVars, rabbitVars, pubVars, dlqVars, delayVars, txVars, ncVars, balVars>>
otherThanDelay ==
    <<retryVars, procVars, rabbitVars, pubVars, consVars, startVars, dlqVars, txVars, ncVars, balVars>>
otherThanTx ==
    <<retryVars, procVars, rabbitVars, pubVars, consVars, startVars, dlqVars, delayVars,
      ncVars, balVars>>
otherThanDlq ==
    <<retryVars, procVars, rabbitVars, pubVars, consVars, startVars, delayVars, txVars, ncVars, balVars>>
otherThanNewClient ==
    <<retryVars, procVars, pubVars, consVars, startVars, dlqVars, delayVars, txVars,
      balVars>>
otherThanBalancer ==
    <<retryVars, procVars, rabbitVars, pubVars, consVars, startVars, dlqVars, delayVars,
      txVars, ncVars>>

----------------------------------------------------------------------------
\* Bounds of the model
MaxAttemptsBound == 3      \* strategy.Attempts / maxAttempts range over 0..MaxAttemptsBound
MaxDelayBound == 2         \* durations range over 0..MaxDelayBound (abstract time units)
MaxBackoffHalves == 4      \* Backoff multiplier ranges over k/2, k in 1..MaxBackoffHalves
MaxMsgs == 2               \* messages (offsets 1..MaxMsgs) the Kafka reader delivers
MaxConns == 3              \* connections the client dials successfully over its life
MaxDialFails == 1          \* failed dials one reconnectLoop makes
MaxClosers == 2            \* callers of RabbitClient.Close
MaxGetters == 1            \* callers of RabbitClient.GetChannel
MaxWorkers == 2            \* cfg.Workers ranges over -1..MaxWorkers
MaxDeliveries == 2         \* deliveries the broker hands to one consume call
MaxConsumeAttempts == 2    \* ConsumingStrat.Attempts ranges over 0..MaxConsumeAttempts
MaxConsumes == 2      \* calls of consume one Start makes
MaxWaits == 3         \* reconnect waits followed in a row
MaxTimeoutIn == 2     \* ConnectTimeout and Heartbeat passed to NewClient: 0..MaxTimeoutIn
MaxSlaves == 3        \* b.max ranges over -1..MaxSlaves
MaxCallers == 2       \* goroutines that call balancer.index()
MaxCalls == 6         \* index() calls followed

\* values an executor returns
NotReturned == <<"none">>  \* it has not returned yet
Nil == <<"nil">>
ErrOf(k) == <<"err", k>>   \* the error the k-th invocation of fn produced
CtxErr == <<"ctx">>        \* ctx.Err(): the cancellation error

----------------------------------------------------------------------------
\* retry.Do

\* time.Duration(float64(delay) * strategy.Backoff): the product truncated to an integer
NextDelay(delay, backoff2) == (delay * backoff2) \div 2

Strategies ==
    [Attempts : 0..MaxAttemptsBound, Delay : 0..MaxDelayBound, Backoff2 : 1..MaxBackoffHalves]

RetryIdle ==
    /\ rKind = "none"
    /\ rPc = "idle"
    /\ rStrategy = [Attempts |-> 0, Delay |-> 0, Backoff2 |-> 2]
    /\ rI = 0
    /\ rDelay = 0
    /\ rErr = 0
    /\ rRet = NotReturned
    /\ rOutcomes = <<>>
    /\ rSleeps = <<>>
    /\ rCtxDone = FALSE

\* Do is entered: delay := strategy.Delay; var err error; i := 0
RetryInit ==
    /\ rKind \in {"Do", "DoContext"}
    /\ rPc = "loop"
    /\ rStrategy \in Strategies
    /\ rI = 0
    /\ rDelay = rStrategy.Delay
    /\ rErr = 0
    /\ rRet = NotReturned
    /\ rOutcomes = <<>>
    /\ rSleeps = <<>>
    /\ rCtxDone = FALSE

\* mutant: the error of the first failure is kept instead of the last one
DoCall_KeepsFirstErr(ok) ==
    /\ rKind = "Do"
    /\ rPc = "loop"
    /\ rI < rStrategy.Attempts
    /\ rOutcomes' = Append(rOutcomes, ok)
    /\ IF ok
         THEN /\ rRet' = Nil
              /\ rPc' = "done"
              /\ rErr' = 0
         ELSE /\ rErr' = IF rErr = 0 THEN Len(rOutcomes) + 1 ELSE rErr
              /\ rPc' = "sleep"
              /\ rRet' = rRet
    /\ UNCHANGED <<rKind, rStrategy, rI, rDelay, rSleeps, rCtxDone>>
    /\ UNCHANGED otherThanRetry

\* err = fn(); if err == nil { return nil }
DoCall(ok) ==
    /\ rKind = "Do"
    /\ rPc = "loop"
    /\ rI < rStrategy.Attempts
    /\ rOutcomes' = Append(rOutcomes, ok)
    /\ IF ok
         THEN /\ rRet' = Nil
              /\ rPc' = "done"
              /\ rErr' = 0
         ELSE /\ rErr' = Len(rOutcomes) + 1
              /\ rPc' = "sleep"
              /\ rRet' = rRet
    /\ UNCHANGED <<rKind, rStrategy, rI, rDelay, rSleeps, rCtxDone>>
    /\ UNCHANGED otherThanRetry

\* mutant: the loop index is not advanced after a failure when it is the last but one
DoSleep_OffByOne ==
    /\ rKind = "Do"
    /\ rPc = "sleep"
    /\ rSleeps' = Append(rSleeps, rDelay)
    /\ rDelay' = NextDelay(rDelay, rStrategy.Backoff2)
    /\ rI' = IF rI + 2 = rStrategy.Attempts THEN rI + 2 ELSE rI + 1
    /\ rPc' = "loop"
    /\ UNCHANGED <<rKind, rStrategy, rErr, rRet, rOutcomes, rCtxDone>>
    /\ UNCHANGED otherThanRetry

\* time.Sleep(delay); delay = time.Duration(float64(delay) * strategy.Backoff); i++
DoSleep ==
    /\ rKind = "Do"
    /\ rPc = "sleep"
    /\ rSleeps' = Append(rSleeps, rDelay)
    /\ rDelay' = NextDelay(rDelay, rStrategy.Backoff2)
    /\ rI' = rI + 1
    /\ rPc' = "loop"
    /\ UNCHANGED <<rKind, rStrategy, rErr, rRet, rOutcomes, rCtxDone>>
    /\ UNCHANGED otherThanRetry

\* the loop condition i < strategy.Attempts fails: return err
DoReturn ==
    /\ rKind = "Do"
    /\ rPc = "loop"
    /\ ~(rI < rStrategy.Attempts)
    /\ rRet' = (IF rErr = 0 THEN Nil ELSE ErrOf(rErr))
    /\ rPc' = "done"
    /\ UNCHANGED <<rKind, rStrategy, rI, rDelay, rErr, rOutcomes, rSleeps, rCtxDone>>
    /\ UNCHANGED otherThanRetry

\* Producer.SendWithRetry(ctx, strategy, key, value) and the other ...WithRetry
\* wrappers run retry.Do over an operation that takes their ctx; Do itself is handed
\* no context.  The caller cancels that ctx
DoCtxCancel ==
    /\ rKind = "Do"
    /\ rPc # "done"
    /\ ~rCtxDone
    /\ rCtxDone' = TRUE
    /\ UNCHANGED <<rKind, rPc, rStrategy, rI, rDelay, rErr, rRet, rOutcomes, rSleeps>>
    /\ UNCHANGED otherThanRetry

----------------------------------------------------------------------------
\* retry.DoContext (the executor Publisher.Publish runs its attempts under)

\* the executors that run under DoContext: a bare call of it, and Publisher.Publish
DcKinds == {"DoContext", "Publish"}

\* what DoContext does with the result of one attempt: on success return nil; on
\* failure return the last error when the attempts are exhausted, otherwise wait
\* for the delay
DcAfterCall(ok) ==
    /\ rOutcomes' = Append(rOutcomes, ok)
    /\ IF ok
         THEN /\ rRet' = Nil
              /\ rPc' = "done"
              /\ rErr' = 0
         ELSE /\ rErr' = Len(rOutcomes) + 1
              /\ IF rI + 1 >= rStrategy.Attempts
                   THEN /\ rRet' = ErrOf(Len(rOutcomes) + 1)
                        /\ rPc' = "done"
                   ELSE /\ rRet' = rRet
                        /\ rPc' = "wait"
    /\ UNCHANGED <<rKind, rStrategy, rI, rDelay, rSleeps, rCtxDone>>

\* one attempt of a bare DoContext call: fn is invoked and returns
DcCall(ok) ==
    /\ rKind = "DoContext"
    /\ rPc = "loop"
    /\ rI < rStrategy.Attempts
    /\ DcAfterCall(ok)
    /\ UNCHANGED otherThanRetry

\* the delay between two attempts elapses; the delay grows by the multiplier
DcWait ==
    /\ rKind \in DcKinds
    /\ rPc = "wait"
    /\ rSleeps' = Append(rSleeps, rDelay)
    /\ rDelay' = NextDelay(rDelay, rStrategy.Backoff2)
    /\ rI' = rI + 1
    /\ rPc' = "loop"
    /\ UNCHANGED <<rKind, rStrategy, rErr, rRet, rOutcomes, rCtxDone>>
    /\ UNCHANGED otherThanRetry

\* the wait is interrupted by cancellation: return the cancellation error
DcCancelled ==
    /\ rKind \in DcKinds
    /\ rPc = "wait"
    /\ rCtxDone
    /\ rRet' = CtxErr
    /\ rPc' = "done"
    /\ UNCHANGED <<rKind, rStrategy, rI, rDelay, rErr, rOutcomes, rSleeps, rCtxDone>>
    /\ UNCHANGED otherThanRetry

\* no attempt is allowed by the policy (Attempts <= 0): nothing to return but nil
DcReturn ==
    /\ rKind \in DcKinds
    /\ rPc = "loop"
    /\ ~(rI < rStrategy.Attempts)
    /\ rRet' = (IF rErr = 0 THEN Nil ELSE ErrOf(rErr))
    /\ rPc' = "done"
    /\ UNCHANGED <<rKind, rStrategy, rI, rDelay, rErr, rOutcomes, rSleeps, rCtxDone>>
    /\ UNCHANGED otherThanRetry

\* the caller cancels the context handed to DoContext
DcCtxCancel ==
    /\ rKind \in DcKinds
    /\ rPc # "done"
    /\ ~rCtxDone
    /\ rCtxDone' = TRUE
    /\ UNCHANGED <<rKind, rPc, rStrategy, rI, rDelay, rErr, rRet, rOutcomes, rSleeps>>
    /\ UNCHANGED otherThanRetry

\* Publisher.Publish: return retry.DoContext(ctx, p.client.config.ProducingStrat, ...)
PublishRet == IF rKind = "DoContext" THEN rRet ELSE NotReturned

NextDo ==
    \/ \E ok \in BOOLEAN : DoCall(ok)
    \/ DoSleep
    \/ DoReturn
    \/ DoCtxCancel

NextRetry ==
    \/ NextDo
    \/ \E ok \in BOOLEAN : DcCall(ok)
    \/ DcWait
    \/ DcCancelled
    \/ DcReturn
    \/ DcCtxCancel

----------------------------------------------------------------------------
\* kafkav2.Processor and dlq.DLQ.  Durations are in units of 10ms.

_defaultMaxAttempts == 3
_defaultBaseRetryDelay == 1
_defaultMaxRetryDelay == 10
_backoffMultiplier == 2

Msgs == 1..MaxMsgs

Min(a, b) == IF a < b THEN a ELSE b

\* an option of NewProcessor: <<>> when it is not given, <<v>> when given with value v
OptOr(o, default) == IF o = <<>> THEN default ELSE o[1]

ProcIdle ==
    /\ pPc = "idle"
    /\ pCfg = [maxAttempts |-> 0, baseRetryDelay |-> 0, maxRetryDelay |-> 0, dlq |-> FALSE]
    /\ pNext = 1
    /\ pMsg = 0
    /\ pAttempt = 0
    /\ pLastErr = 0
    /\ pBackoff = 0
    /\ pJitter = 0
    /\ pCtxDone = FALSE
    /\ hCalls = [m \in Msgs |-> <<>>]
    /\ pCommitTries = [m \in Msgs |-> 0]
    /\ pCommitted = [m \in Msgs |-> 0]
    /\ dlqTries = [m \in Msgs |-> 0]
    /\ dlqTopic = <<>>

\* before NewProcessor is called
ProcInit ==
    /\ pPc = "new"
    /\ pCfg = [maxAttempts |-> 0, baseRetryDelay |-> 0, maxRetryDelay |-> 0, dlq |-> FALSE]
    /\ pNext = 1
    /\ pMsg = 0
    /\ pAttempt = 0
    /\ pLastErr = 0
    /\ pBackoff = 0
    /\ pJitter = 0
    /\ pCtxDone = FALSE
    /\ hCalls = [m \in Msgs |-> <<>>]
    /\ pCommitTries = [m \in Msgs |-> 0]
    /\ pCommitted = [m \in Msgs |-> 0]
    /\ dlqTries = [m \in Msgs |-> 0]
    /\ dlqTopic = <<>>

\* mutant: validate without the check baseRetryDelay > maxRetryDelay
validate_NoOrderCheck(cfg) ==
    /\ ~(cfg.maxAttempts <= 0)
    /\ ~(cfg.baseRetryDelay <= 0)
    /\ ~(cfg.maxRetryDelay <= 0)

\* Processor.validate: nil (TRUE) or one of the four errors (FALSE)
validate(cfg) ==
    /\ ~(cfg.maxAttempts <= 0)
    /\ ~(cfg.baseRetryDelay <= 0)
    /\ ~(cfg.maxRetryDelay <= 0)
    /\ ~(cfg.baseRetryDelay > cfg.maxRetryDelay)

\* NewProcessor(c, d, logger, opts...): defaults, then the options, then validate
NewProcessor(a, b, x, d) ==
    /\ pPc = "new"
    /\ LET cfg == [maxAttempts    |-> OptOr(a, _defaultMaxAttempts),
                   baseRetryDelay |-> OptOr(b, _defaultBaseRetryDelay),
                   maxRetryDelay  |-> OptOr(x, _defaultMaxRetryDelay),
                   dlq            |-> d]
       IN  /\ pCfg' = cfg
           /\ pPc' = IF validate(cfg) THEN "ready" ELSE "invalid"
    /\ UNCHANGED <<pNext, pMsg, pAttempt, pLastErr, pBackoff, pJitter, pCtxDone,
                   hCalls, pCommitTries, pCommitted, dlqTries, dlqTopic>>
    /\ UNCHANGED otherThanProc

\* Processor.Start: go func() { for { ... } }()
Start ==
    /\ pPc = "ready"
    /\ pPc' = "fetch"
    /\ UNCHANGED <<pCfg, pNext, pMsg, pAttempt, pLastErr, pBackoff, pJitter, pCtxDone,
                   hCalls, pCommitTries, pCommitted, dlqTries, dlqTopic>>
    /\ UNCHANGED otherThanProc

\* msg, err := p.consumer.Fetch(ctx) with err == nil; processWithRetry is entered:
\* lastErr = nil, currentBackoff := p.baseRetryDelay, attempt := 1
FetchMsg ==
    /\ pPc = "fetch"
    /\ pNext <= MaxMsgs
    /\ pMsg' = pNext
    /\ pNext' = pNext + 1
    /\ pAttempt' = 1
    /\ pLastErr' = 0
    /\ pBackoff' = pCfg.baseRetryDelay
    /\ pJitter' = 0
    /\ pPc' = "handler"
    /\ UNCHANGED <<pCfg, pCtxDone, hCalls, pCommitTries, pCommitted, dlqTries, dlqTopic>>
    /\ UNCHANGED otherThanProc

\* Fetch fails: return when ctx.Err() != nil, otherwise log and continue
FetchErr ==
    /\ pPc = "fetch"
    /\ pPc' = IF pCtxDone THEN "stopped" ELSE "fetch"
    /\ UNCHANGED <<pCfg, pNext, pMsg, pAttempt, pLastErr, pBackoff, pJitter, pCtxDone,
                   hCalls, pCommitTries, pCommitted, dlqTries, dlqTopic>>
    /\ UNCHANGED otherThanProc

\* jitter := min(rand.Int64N(currentBackoff*_backoffMultiplier), p.maxRetryDelay)
Jitters == {Min(r, pCfg.maxRetryDelay) : r \in 0..(pBackoff * _backoffMultiplier - 1)}

\* mutant: a handler success does not end the loop
HandlerCall_IgnoresSuccess(ok, j) ==
    /\ pPc = "handler"
    /\ j \in Jitters
    /\ hCalls' = [hCalls EXCEPT ![pMsg] = Append(@, ok)]
    /\ pLastErr' = IF ok THEN 0 ELSE pAttempt
    /\ IF pAttempt >= pCfg.maxAttempts
         THEN pPc' = (IF ok THEN "commitOk" ELSE "exhausted") /\ pJitter' = 0
         ELSE pPc' = "backoff" /\ pJitter' = j
    /\ UNCHANGED <<pCfg, pNext, pMsg, pAttempt, pBackoff, pCtxDone,
                   pCommitTries, pCommitted, dlqTries, dlqTopic>>
    /\ UNCHANGED otherThanProc

\* mutant: the loop gives the message up one attempt early
HandlerCall_GivesUpEarly(ok, j) ==
    /\ pPc = "handler"
    /\ j \in Jitters
    /\ hCalls' = [hCalls EXCEPT ![pMsg] = Append(@, ok)]
    /\ pLastErr' = IF ok THEN 0 ELSE pAttempt
    /\ IF ok
         THEN pPc' = "commitOk" /\ pJitter' = 0
         ELSE IF pAttempt + 1 >= pCfg.maxAttempts
                THEN pPc' = "exhausted" /\ pJitter' = 0
                ELSE pPc' = "backoff" /\ pJitter' = j
    /\ UNCHANGED <<pCfg, pNext, pMsg, pAttempt, pBackoff, pCtxDone,
                   pCommitTries, pCommitted, dlqTries, dlqTopic>>
    /\ UNCHANGED otherThanProc

\* lastErr = handler(ctx, msg); nil: go commit and return; otherwise log, break when
\* attempt >= p.maxAttempts, else draw the jitter and wait
HandlerCall(ok, j) ==
    /\ pPc = "handler"
    /\ j \in Jitters
    /\ hCalls' = [hCalls EXCEPT ![pMsg] = Append(@, ok)]
    /\ pLastErr' = IF ok THEN 0 ELSE pAttempt
    /\ IF ok
         THEN pPc' = "commitOk" /\ pJitter' = 0
         ELSE IF pAttempt >= pCfg.maxAttempts
                THEN pPc' = "exhausted" /\ pJitter' = 0
                ELSE pPc' = "backoff" /\ pJitter' = j
    /\ UNCHANGED <<pCfg, pNext, pMsg, pAttempt, pBackoff, pCtxDone,
                   pCommitTries, pCommitted, dlqTries, dlqTopic>>
    /\ UNCHANGED otherThanProc

\* p.consumer.Commit(ctx, msg) after a handler success (an error is only logged); return
CommitAfterSuccess(ok) ==
    /\ pPc = "commitOk"
    /\ pCommitTries' = [pCommitTries EXCEPT ![pMsg] = @ + 1]
    /\ pCommitted' = [pCommitted EXCEPT ![pMsg] = IF ok THEN @ + 1 ELSE @]
    /\ pPc' = "fetch"
    /\ UNCHANGED <<pCfg, pNext, pMsg, pAttempt, pLastErr, pBackoff, pJitter, pCtxDone,
                   hCalls, dlqTries, dlqTopic>>
    /\ UNCHANGED otherThanProc

\* mutant: the backoff doubles without the cap at maxRetryDelay
BackoffElapsed_NoCap ==
    /\ pPc = "backoff"
    /\ pBackoff' = pBackoff * _backoffMultiplier
    /\ pAttempt' = pAttempt + 1
    /\ pJitter' = 0
    /\ pPc' = "handler"
    /\ UNCHANGED <<pCfg, pNext, pMsg, pLastErr, pCtxDone,
                   hCalls, pCommitTries, pCommitted, dlqTries, dlqTopic>>
    /\ UNCHANGED otherThanProc

\* case <-time.After(jitter): currentBackoff = min(currentBackoff*2, maxRetryDelay); attempt++
\* (with ctx done before the select is entered either case may be taken)
BackoffElapsed ==
    /\ pPc = "backoff"
    /\ pBackoff' = Min(pBackoff * _backoffMultiplier, pCfg.maxRetryDelay)
    /\ pAttempt' = pAttempt + 1
    /\ pJitter' = 0
    /\ pPc' = "handler"
    /\ UNCHANGED <<pCfg, pNext, pMsg, pLastErr, pCtxDone,
                   hCalls, pCommitTries, pCommitted, dlqTries, dlqTopic>>
    /\ UNCHANGED otherThanProc

\* case <-ctx.Done(): return, for a select that is entered with ctx already done
BackoffCancelled ==
    /\ pPc = "backoff"
    /\ pCtxDone
    /\ pJitter' = 0
    /\ pPc' = "fetch"
    /\ UNCHANGED <<pCfg, pNext, pMsg, pAttempt, pLastErr, pBackoff, pCtxDone,
                   hCalls, pCommitTries, pCommitted, dlqTries, dlqTopic>>
    /\ UNCHANGED otherThanProc

\* json.Marshal of the payload map (strings, an int, a time.Time of time.Now().UTC()):
\* the outcomes it can have
MarshalOutcomes == {TRUE}

\* DLQ.PublishError(ctx, msg, err, attempt): the value that is sent
Envelope(msg, err, attempt, marshalOk) ==
    [key |-> msg, error |-> err, attempt |-> IF marshalOk THEN attempt ELSE 0,
     fallback |-> ~marshalOk]

\* mutant: the offset is committed whatever the DLQ answered
PublishError_CommitsAnyway(sendOk, marshalOk) ==
    /\ pPc = "exhausted"
    /\ pCfg.dlq
    /\ dlqTries' = [dlqTries EXCEPT ![pMsg] = @ + 1]
    /\ dlqTopic' = IF sendOk
                     THEN Append(dlqTopic, Envelope(pMsg, pLastErr, pCfg.maxAttempts, marshalOk))
                     ELSE dlqTopic
    /\ pPc' = "finalCommit"
    /\ UNCHANGED <<pCfg, pNext, pMsg, pAttempt, pLastErr, pBackoff, pJitter, pCtxDone,
                   hCalls, pCommitTries, pCommitted>>
    /\ UNCHANGED otherThanProc

\* mutant: the envelope carries the attempt counter minus one
PublishError_WrongAttempt(sendOk, marshalOk) ==
    /\ pPc = "exhausted"
    /\ pCfg.dlq
    /\ dlqTries' = [dlqTries EXCEPT ![pMsg] = @ + 1]
    /\ dlqTopic' = IF sendOk
                     THEN Append(dlqTopic, Envelope(pMsg, pLastErr, pCfg.maxAttempts - 1, marshalOk))
                     ELSE dlqTopic
    /\ pPc' = IF sendOk THEN "finalCommit" ELSE "fetch"
    /\ UNCHANGED <<pCfg, pNext, pMsg, pAttempt, pLastErr, pBackoff, pJitter, pCtxDone,
                   hCalls, pCommitTries, pCommitted>>
    /\ UNCHANGED otherThanProc

\* mutant: a failed DLQ publish ends the processing goroutine
PublishError_StopsOnFailure(sendOk, marshalOk) ==
    /\ pPc = "exhausted"
    /\ pCfg.dlq
    /\ dlqTries' = [dlqTries EXCEPT ![pMsg] = @ + 1]
    /\ dlqTopic' = IF sendOk
                     THEN Append(dlqTopic, Envelope(pMsg, pLastErr, pCfg.maxAttempts, marshalOk))
                     ELSE dlqTopic
    /\ pPc' = IF sendOk THEN "finalCommit" ELSE "stopped"
    /\ UNCHANGED <<pCfg, pNext, pMsg, pAttempt, pLastErr, pBackoff, pJitter, pCtxDone,
                   hCalls, pCommitTries, pCommitted>>
    /\ UNCHANGED otherThanProc

\* if p.dlq != nil { if err := p.dlq.PublishError(ctx, msg, lastErr, p.maxAttempts);
\*   err != nil { log; return } }
PublishError(sendOk, marshalOk) ==
    /\ pPc = "exhausted"
    /\ pCfg.dlq
    /\ dlqTries' = [dlqTries EXCEPT ![pMsg] = @ + 1]
    /\ dlqTopic' = IF sendOk
                     THEN Append(dlqTopic, Envelope(pMsg, pLastErr, pCfg.maxAttempts, marshalOk))
                     ELSE dlqTopic
    /\ pPc' = IF sendOk THEN "finalCommit" ELSE "fetch"
    /\ UNCHANGED <<pCfg, pNext, pMsg, pAttempt, pLastErr, pBackoff, pJitter, pCtxDone,
                   hCalls, pCommitTries, pCommitted>>
    /\ UNCHANGED otherThanProc

\* mutant: without a DLQ an exhausted message is left uncommitted
NoDlq_SkipsCommit ==
    /\ pPc = "exhausted"
    /\ ~pCfg.dlq
    /\ pPc' = "fetch"
    /\ UNCHANGED <<pCfg, pNext, pMsg, pAttempt, pLastErr, pBackoff, pJitter, pCtxDone,
                   hCalls, pCommitTries, pCommitted, dlqTries, dlqTopic>>
    /\ UNCHANGED otherThanProc

\* p.dlq == nil: straight to the final commit
NoDlq ==
    /\ pPc = "exhausted"
    /\ ~pCfg.dlq
    /\ pPc' = "finalCommit"
    /\ UNCHANGED <<pCfg, pNext, pMsg, pAttempt, pLastErr, pBackoff, pJitter, pCtxDone,
                   hCalls, pCommitTries, pCommitted, dlqTries, dlqTopic>>
    /\ UNCHANGED otherThanProc

\* if err := p.consumer.Commit(ctx, msg); err != nil { log }
FinalCommit(ok) ==
    /\ pPc = "finalCommit"
    /\ pCommitTries' = [pCommitTries EXCEPT ![pMsg] = @ + 1]
    /\ pCommitted' = [pCommitted EXCEPT ![pMsg] = IF ok THEN @ + 1 ELSE @]
    /\ pPc' = "fetch"
    /\ UNCHANGED <<pCfg, pNext, pMsg, pAttempt, pLastErr, pBackoff, pJitter, pCtxDone,
                   hCalls, dlqTries, dlqTopic>>
    /\ UNCHANGED otherThanProc

\* mutant: a cancellation leaves a goroutine that waits in the select where it is
ProcCtxCancel_LeavesWaiting ==
    /\ pPc \in {"fetch", "handler", "backoff", "commitOk", "exhausted", "finalCommit"}
    /\ ~pCtxDone
    /\ pCtxDone' = TRUE
    /\ UNCHANGED <<pPc, pCfg, pNext, pMsg, pAttempt, pLastErr, pBackoff, pJitter,
                   hCalls, pCommitTries, pCommitted, dlqTries, dlqTopic>>
    /\ UNCHANGED otherThanProc

\* the caller cancels the context given to Start.  A goroutine that is blocked in
\* select { case <-time.After(jitter): case <-ctx.Done(): return } is woken by the
\* closing of ctx.Done(), the first of its cases to become ready, and
\* processWithRetry returns; anywhere else the goroutine only finds ctx done later
ProcCtxCancel ==
    /\ pPc \in {"fetch", "handler", "backoff", "commitOk", "exhausted", "finalCommit"}
    /\ ~pCtxDone
    /\ pCtxDone' = TRUE
    /\ IF pPc = "backoff"
         THEN pPc' = "fetch" /\ pJitter' = 0
         ELSE UNCHANGED <<pPc, pJitter>>
    /\ UNCHANGED <<pCfg, pNext, pMsg, pAttempt, pLastErr, pBackoff,
                   hCalls, pCommitTries, pCommitted, dlqTries, dlqTopic>>
    /\ UNCHANGED otherThanProc

\* the options a caller may pass
AttemptOpts == {<<>>} \cup {<<v>> : v \in 0..MaxAttemptsBound}
DelayOpts == {<<>>} \cup {<<v>> : v \in 0..MaxDelayBound}

NextProc ==
    \/ \E a \in AttemptOpts, b \in DelayOpts, x \in DelayOpts, d \in BOOLEAN :
          NewProcessor(a, b, x, d)
    \/ Start
    \/ FetchMsg
    \/ FetchErr
    \/ \E ok \in BOOLEAN, j \in Jitters : HandlerCall(ok, j)
    \/ \E ok \in BOOLEAN : CommitAfterSuccess(ok)
    \/ BackoffElapsed
    \/ BackoffCancelled
    \/ \E sendOk \in BOOLEAN, marshalOk \in MarshalOutcomes : PublishError(sendOk, marshalOk)
    \/ NoDlq
    \/ \E ok \in BOOLEAN : FinalCommit(ok)
    \/ ProcCtxCancel

----------------------------------------------------------------------------
\* rabbitmq.RabbitClient

Conns == 1..MaxConns
Closers == 1..MaxClosers
Getters == 1..MaxGetters

NoConn == [state |-> "none", registered |-> FALSE, notifErr |-> FALSE]
NoWatcher == [pc |-> "none", ch |-> 0]
NoRecon == [pc |-> "none", conn |-> 0, old |-> 0, attempt |-> 0]
\* a goroutine that returned: its locals are gone
WatcherDone == [pc |-> "done", ch |-> 0]
ReconDone == [pc |-> "done", conn |-> 0, old |-> 0, attempt |-> 0]

RabbitIdle ==
    /\ conn = 0
    /\ notify = 0
    /\ closed = FALSE
    /\ cancelled = FALSE
    /\ conns = [c \in Conns |-> NoConn]
    /\ watcher = [c \in Conns |-> NoWatcher]
    /\ recon = [c \in Conns |-> NoRecon]
    /\ closer = [k \in Closers |-> [pc |-> "off", won |-> FALSE, ret |-> "none"]]
    /\ getter = [g \in Getters |-> [pc |-> "off", conn |-> 0, ret |-> "none",
                                    afterClose |-> FALSE, sawConnecting |-> FALSE]]
    /\ channels = {}

\* NewClient returned a client: connect dialed connection 1, made it current,
\* registered c.notify on it and started its watcher.
RabbitInit ==
    /\ conn = 1
    /\ notify = 1
    /\ closed = FALSE
    /\ cancelled = FALSE
    /\ conns = [c \in Conns |-> IF c = 1
                                  THEN [state |-> "open", registered |-> TRUE, notifErr |-> FALSE]
                                  ELSE NoConn]
    /\ watcher = [c \in Conns |-> IF c = 1 THEN [pc |-> "spawned", ch |-> 0] ELSE NoWatcher]
    /\ recon = [c \in Conns |-> NoRecon]
    /\ closer = [k \in Closers |-> [pc |-> "idle", won |-> FALSE, ret |-> "none"]]
    /\ getter = [g \in Getters |-> [pc |-> "idle", conn |-> 0, ret |-> "none",
                                    afterClose |-> FALSE, sawConnecting |-> FALSE]]
    /\ channels = {}

IsOpen(c) == c # 0 /\ conns[c].state = "open"

\* states of the connection supervisor
SupClosed == closed
SupOpen == ~closed /\ IsOpen(conn)
SupConnecting == ~closed /\ ~IsOpen(conn)

\* Healthy: c.mu.RLock(); return !c.closed.Load() && c.conn != nil && !c.conn.IsClosed()
Healthy == ~closed /\ conn # 0 /\ IsOpen(conn)

\* the connection is closed by the broker or the network: amqp091 sends the error to
\* the registered close channel and closes the channel (a channel registered by
\* NotifyClose only after that is closed at once, with no error in it)
ConnLost(c) ==
    /\ conns[c].state = "open"
    /\ conns' = [conns EXCEPT ![c].state = "lost", ![c].notifErr = conns[c].registered]
    /\ UNCHANGED <<conn, notify, closed, cancelled, watcher, recon, closer, getter, channels>>
    /\ UNCHANGED otherThanRabbit

\* Connection.Close() by the client: the close channel is closed, no error is sent
ClosedByClient(cs, c) ==
    IF c # 0 /\ cs[c].state = "open" THEN [cs EXCEPT ![c].state = "closed"] ELSE cs

\* watchConnection enters its select: c.ctx.Done() and c.notify are evaluated
WatchEnter(c) ==
    /\ watcher[c].pc = "spawned"
    /\ watcher' = [watcher EXCEPT ![c] = [pc |-> "waiting", ch |-> notify]]
    /\ UNCHANGED <<conn, notify, closed, cancelled, conns, recon, closer, getter, channels>>
    /\ UNCHANGED otherThanRabbit

\* case <-c.ctx.Done(): return
WatchCtxDone(c) ==
    /\ watcher[c].pc = "waiting"
    /\ cancelled
    /\ watcher' = [watcher EXCEPT ![c] = WatcherDone]
    /\ UNCHANGED <<conn, notify, closed, cancelled, conns, recon, closer, getter, channels>>
    /\ UNCHANGED otherThanRabbit

\* mutant: the watcher starts the reconnect loop without waiting for the closure
WatchNotified_NoWait(c) ==
    /\ watcher[c].pc = "waiting"
    /\ recon' = IF ~closed
                  THEN [recon EXCEPT ![c] = [pc |-> "check", conn |-> 0, old |-> 0,
                                             attempt |-> 0]]
                  ELSE recon
    /\ watcher' = [watcher EXCEPT ![c] = WatcherDone]
    /\ UNCHANGED <<conn, notify, closed, cancelled, conns, closer, getter, channels>>
    /\ UNCHANGED otherThanRabbit

\* case err := <-c.notify: if err != nil && !c.closed.Load() { go c.reconnectLoop() }
WatchNotified(c) ==
    /\ watcher[c].pc = "waiting"
    /\ LET ch == watcher[c].ch
       IN  /\ ch # 0
           /\ conns[ch].registered
           /\ conns[ch].notifErr \/ conns[ch].state \in {"lost", "closed"}
           /\ conns' = [conns EXCEPT ![ch].notifErr = FALSE]
           /\ recon' = IF conns[ch].notifErr /\ ~closed
                         THEN [recon EXCEPT ![c] = [pc |-> "check", conn |-> 0, old |-> 0,
                                                    attempt |-> 0]]
                         ELSE recon
    /\ watcher' = [watcher EXCEPT ![c] = WatcherDone]
    /\ UNCHANGED <<conn, notify, closed, cancelled, closer, getter, channels>>
    /\ UNCHANGED otherThanRabbit

\* reconnectLoop: the loop condition !c.closed.Load()
ReconCheck(c) ==
    /\ recon[c].pc = "check"
    /\ recon' = [recon EXCEPT ![c] = IF closed THEN ReconDone ELSE [@ EXCEPT !.pc = "dial"]]
    /\ UNCHANGED <<conn, notify, closed, cancelled, conns, watcher, closer, getter, channels>>
    /\ UNCHANGED otherThanRabbit

\* id of the next connection a dial creates
NextConnId == Cardinality({c \in Conns : conns[c].state # "none"}) + 1

\* connect: amqp091.DialConfig succeeds
DialOk(c) ==
    /\ recon[c].pc = "dial"
    /\ NextConnId <= MaxConns
    /\ conns' = [conns EXCEPT ![NextConnId].state = "open"]
    /\ recon' = [recon EXCEPT ![c].pc = "install", ![c].conn = NextConnId]
    /\ UNCHANGED <<conn, notify, closed, cancelled, watcher, closer, getter, channels>>
    /\ UNCHANGED otherThanRabbit

\* connect: amqp091.DialConfig fails; connect returns the error
DialFail(c) ==
    /\ recon[c].pc = "dial"
    /\ recon[c].attempt < MaxDialFails
    /\ recon' = [recon EXCEPT ![c].pc = "wait"]
    /\ UNCHANGED <<conn, notify, closed, cancelled, conns, watcher, closer, getter, channels>>
    /\ UNCHANGED otherThanRabbit

\* connect: c.mu.Lock(); oldConn := c.conn; c.conn = conn;
\* c.notify = make(chan *amqp091.Error, 1); conn.NotifyClose(c.notify); c.mu.Unlock()
ConnectInstall(c) ==
    /\ recon[c].pc = "install"
    /\ conn' = recon[c].conn
    /\ notify' = recon[c].conn
    /\ conns' = [conns EXCEPT ![recon[c].conn].registered = TRUE]
    /\ recon' = [recon EXCEPT ![c].pc = "closeOld", ![c].old = conn]
    /\ UNCHANGED <<closed, cancelled, watcher, closer, getter, channels>>
    /\ UNCHANGED otherThanRabbit

\* connect: if oldConn != nil { _ = oldConn.Close() }
ConnectCloseOld(c) ==
    /\ recon[c].pc = "closeOld"
    /\ conns' = ClosedByClient(conns, recon[c].old)
    /\ recon' = [recon EXCEPT ![c].pc = "spawn"]
    /\ UNCHANGED <<conn, notify, closed, cancelled, watcher, closer, getter, channels>>
    /\ UNCHANGED otherThanRabbit

\* mutant: reconnectLoop does not return after a successful connect
ConnectSpawnWatcher_KeepsLooping(c) ==
    /\ recon[c].pc = "spawn"
    /\ watcher' = [watcher EXCEPT ![recon[c].conn] = [pc |-> "spawned", ch |-> 0]]
    /\ recon' = [recon EXCEPT ![c].pc = "check"]
    /\ UNCHANGED <<conn, notify, closed, cancelled, conns, closer, getter, channels>>
    /\ UNCHANGED otherThanRabbit

\* connect: go c.watchConnection(); return nil.  reconnectLoop returns.
ConnectSpawnWatcher(c) ==
    /\ recon[c].pc = "spawn"
    /\ watcher' = [watcher EXCEPT ![recon[c].conn] = [pc |-> "spawned", ch |-> 0]]
    /\ recon' = [recon EXCEPT ![c] = ReconDone]
    /\ UNCHANGED <<conn, notify, closed, cancelled, conns, closer, getter, channels>>
    /\ UNCHANGED otherThanRabbit

\* reconnectLoop: case <-time.After(delay): the delay grows; attempt++
ReconWaitElapsed(c) ==
    /\ recon[c].pc = "wait"
    /\ recon' = [recon EXCEPT ![c].pc = "check", ![c].attempt = @ + 1]
    /\ UNCHANGED <<conn, notify, closed, cancelled, conns, watcher, closer, getter, channels>>
    /\ UNCHANGED otherThanRabbit

\* reconnectLoop: case <-c.ctx.Done(): return
ReconWaitCancelled(c) ==
    /\ recon[c].pc = "wait"
    /\ cancelled
    /\ recon' = [recon EXCEPT ![c] = ReconDone]
    /\ UNCHANGED <<conn, notify, closed, cancelled, conns, watcher, closer, getter, channels>>
    /\ UNCHANGED otherThanRabbit

\* mutant: the flag is read and written without the compare-and-swap's test
CloseCAS_NoTest(k) ==
    /\ closer[k].pc = "idle"
    /\ closed' = TRUE
    /\ closer' = [closer EXCEPT ![k].pc = "cancel", ![k].won = TRUE]
    /\ UNCHANGED <<conn, notify, cancelled, conns, watcher, recon, getter, channels>>
    /\ UNCHANGED otherThanRabbit

\* Close: if !c.closed.CompareAndSwap(false, true) { return nil }
CloseCAS(k) ==
    /\ closer[k].pc = "idle"
    /\ IF closed
         THEN /\ closer' = [closer EXCEPT ![k].pc = "done", ![k].ret = "nil"]
              /\ UNCHANGED closed
         ELSE /\ closed' = TRUE
              /\ closer' = [closer EXCEPT ![k].pc = "cancel", ![k].won = TRUE]
    /\ UNCHANGED <<conn, notify, cancelled, conns, watcher, recon, getter, channels>>
    /\ UNCHANGED otherThanRabbit

\* Close: c.cancel()
CloseCancel(k) ==
    /\ closer[k].pc = "cancel"
    /\ cancelled' = TRUE
    /\ closer' = [closer EXCEPT ![k].pc = "lock"]
    /\ UNCHANGED <<conn, notify, closed, conns, watcher, recon, getter, channels>>
    /\ UNCHANGED otherThanRabbit

\* Close: c.mu.Lock(); defer c.mu.Unlock();
\* if c.conn != nil { return c.conn.Close() }; return nil
CloseConn(k) ==
    /\ closer[k].pc = "lock"
    /\ conns' = ClosedByClient(conns, conn)
    /\ closer' = [closer EXCEPT ![k].pc = "done",
                                ![k].ret = IF conn = 0 \/ IsOpen(conn) THEN "nil"
                                           ELSE "amqp.ErrClosed"]
    /\ UNCHANGED <<conn, notify, closed, cancelled, watcher, recon, getter, channels>>
    /\ UNCHANGED otherThanRabbit

\* mutant: the closed flag is not looked at
GetChannelLoad_NoClosedCheck(g) ==
    /\ getter[g].pc = "idle"
    /\ getter' = [getter EXCEPT ![g].afterClose = closed, ![g].pc = "read"]
    /\ UNCHANGED <<conn, notify, closed, cancelled, conns, watcher, recon, closer, channels>>
    /\ UNCHANGED otherThanRabbit

\* GetChannel: if c.closed.Load() { return nil, ErrClientClosed }
GetChannelLoad(g) ==
    /\ getter[g].pc = "idle"
    /\ getter' = [getter EXCEPT ![g].afterClose = closed,
                                ![g].pc = IF closed THEN "done" ELSE "read",
                                ![g].ret = IF closed THEN "ErrClientClosed" ELSE "none"]
    /\ UNCHANGED <<conn, notify, closed, cancelled, conns, watcher, recon, closer, channels>>
    /\ UNCHANGED otherThanRabbit

\* GetChannel: c.mu.RLock(); conn := c.conn; c.mu.RUnlock();
\* if conn == nil { return nil, ErrChannelLost }
GetChannelRead(g) ==
    /\ getter[g].pc = "read"
    /\ getter' = [getter EXCEPT ![g].conn = conn,
                                ![g].sawConnecting = SupConnecting,
                                ![g].pc = IF conn = 0 THEN "done" ELSE "channel",
                                ![g].ret = IF conn = 0 THEN "ErrChannelLost" ELSE "none"]
    /\ UNCHANGED <<conn, notify, closed, cancelled, conns, watcher, recon, closer, channels>>
    /\ UNCHANGED otherThanRabbit

\* mutant: a channel can be opened on a connection that is no longer open
GetChannelOpen_OnDead(g, ok) ==
    /\ getter[g].pc = "channel"
    /\ IF ok
         THEN /\ channels' = channels \cup {[by |-> g, on |-> getter[g].conn,
                                                cur |-> conn]}
              /\ getter' = [getter EXCEPT ![g].pc = "done", ![g].ret = "channel"]
         ELSE /\ getter' = [getter EXCEPT ![g].pc = "done", ![g].ret = "amqp.Error"]
              /\ UNCHANGED channels
    /\ UNCHANGED <<conn, notify, closed, cancelled, conns, watcher, recon, closer>>
    /\ UNCHANGED otherThanRabbit

\* GetChannel: return conn.Channel().  On a connection that is not open amqp091
\* answers ErrClosed; on an open one the channel is opened or the broker refuses it.
GetChannelOpen(g, ok) ==
    /\ getter[g].pc = "channel"
    /\ IF IsOpen(getter[g].conn)
         THEN IF ok
                THEN /\ channels' = channels \cup {[by |-> g, on |-> getter[g].conn,
                                                       cur |-> conn]}
                     /\ getter' = [getter EXCEPT ![g].pc = "done", ![g].ret = "channel"]
                ELSE /\ getter' = [getter EXCEPT ![g].pc = "done", ![g].ret = "amqp.Error"]
                     /\ UNCHANGED channels
         ELSE /\ getter' = [getter EXCEPT ![g].pc = "done", ![g].ret = "amqp.ErrClosed"]
              /\ UNCHANGED channels
    /\ UNCHANGED <<conn, notify, closed, cancelled, conns, watcher, recon, closer>>
    /\ UNCHANGED otherThanRabbit

NextRabbit ==
    \/ \E c \in Conns : ConnLost(c)
    \/ \E c \in Conns : WatchEnter(c)
    \/ \E c \in Conns : WatchCtxDone(c)
    \/ \E c \in Conns : WatchNotified(c)
    \/ \E c \in Conns : ReconCheck(c)
    \/ \E c \in Conns : DialOk(c)
    \/ \E c \in Conns : DialFail(c)
    \/ \E c \in Conns : ConnectInstall(c)
    \/ \E c \in Conns : ConnectCloseOld(c)
    \/ \E c \in Conns : ConnectSpawnWatcher(c)
    \/ \E c \in Conns : ReconWaitElapsed(c)
    \/ \E c \in Conns : ReconWaitCancelled(c)
    \/ \E k \in Closers : CloseCAS(k)
    \/ \E k \in Closers : CloseCancel(k)
    \/ \E k \in Closers : CloseConn(k)
    \/ \E g \in Getters : GetChannelLoad(g)
    \/ \E g \in Getters : GetChannelRead(g)
    \/ \E g \in Getters, ok \in BOOLEAN : GetChannelOpen(g, ok)

----------------------------------------------------------------------------
\* rabbitmq.Publisher.Publish: retry.DoContext(ctx, ProducingStrat, func() error {...}).
\* The retry variables hold DoContext's state; the closure is modelled step by step.

PubIdle ==
    /\ pubPc = "off"
    /\ pubCh = 0
    /\ pubSent = FALSE
    /\ pubLog = <<>>
    /\ pubClientClosed = FALSE
    /\ pubClosedAtCall = FALSE

\* Publish is called, on a client that is closed already or not
PubInit ==
    /\ rKind = "Publish"
    /\ rPc = "loop"
    /\ rStrategy \in Strategies
    /\ rI = 0
    /\ rDelay = rStrategy.Delay
    /\ rErr = 0
    /\ rRet = NotReturned
    /\ rOutcomes = <<>>
    /\ rSleeps = <<>>
    /\ rCtxDone = FALSE
    /\ pubPc = "idle"
    /\ pubCh = 0
    /\ pubSent = FALSE
    /\ pubLog = <<>>
    /\ pubClientClosed \in BOOLEAN
    /\ pubClosedAtCall = pubClientClosed

\* what GetChannel can answer: ErrClientClosed when the client is closed; otherwise
\* conn.Channel()'s result (c.conn is not nil on a client NewClient returned)
GetChannelAnswers == IF pubClientClosed THEN {"ErrClientClosed"} ELSE {"channel", "amqp.Error"}

\* mutant: a failed acquisition ends Publish at once with that error
PubGetChannel_FailFast(ans) ==
    /\ rKind = "Publish"
    /\ rPc = "loop"
    /\ rI < rStrategy.Attempts
    /\ pubPc = "idle"
    /\ ans \in GetChannelAnswers
    /\ pubLog' = Append(pubLog, [acq |-> ans, sent |-> FALSE])
    /\ IF ans = "channel"
         THEN /\ pubCh' = pubCh + 1
              /\ pubPc' = "send"
              /\ UNCHANGED retryVars
         ELSE /\ rOutcomes' = Append(rOutcomes, FALSE)
              /\ rErr' = Len(rOutcomes) + 1
              /\ rRet' = ErrOf(Len(rOutcomes) + 1)
              /\ rPc' = "done"
              /\ UNCHANGED <<rKind, rStrategy, rI, rDelay, rSleeps, rCtxDone>>
              /\ UNCHANGED <<pubCh, pubPc>>
    /\ UNCHANGED <<pubSent, pubClientClosed, pubClosedAtCall>>
    /\ UNCHANGED otherThanPublish

\* the closure is invoked: ch, err := p.client.GetChannel(); if err != nil { return err };
\* defer ch.Close()
PubGetChannel(ans) ==
    /\ rKind = "Publish"
    /\ rPc = "loop"
    /\ rI < rStrategy.Attempts
    /\ pubPc = "idle"
    /\ ans \in GetChannelAnswers
    /\ pubLog' = Append(pubLog, [acq |-> ans, sent |-> FALSE])
    /\ IF ans = "channel"
         THEN /\ pubCh' = pubCh + 1
              /\ pubPc' = "send"
              /\ UNCHANGED retryVars
         ELSE /\ DcAfterCall(FALSE)
              /\ UNCHANGED <<pubCh, pubPc>>
    /\ UNCHANGED <<pubSent, pubClientClosed, pubClosedAtCall>>
    /\ UNCHANGED otherThanPublish

\* mutant: the closure reports an error although the broker took the message
PubSend_ErrAfterSend(ok) ==
    /\ rKind = "Publish"
    /\ pubPc = "send"
    /\ pubSent' = FALSE
    /\ pubLog' = [pubLog EXCEPT ![Len(pubLog)].sent = ok]
    /\ pubPc' = "defer"
    /\ UNCHANGED <<pubCh, pubClientClosed, pubClosedAtCall>>
    /\ UNCHANGED retryVars
    /\ UNCHANGED otherThanPublish

\* err = ch.PublishWithContext(...); if err != nil { return err }; return nil
PubSend(ok) ==
    /\ rKind = "Publish"
    /\ pubPc = "send"
    /\ pubSent' = ok
    /\ pubLog' = [pubLog EXCEPT ![Len(pubLog)].sent = ok]
    /\ pubPc' = "defer"
    /\ UNCHANGED <<pubCh, pubClientClosed, pubClosedAtCall>>
    /\ UNCHANGED retryVars
    /\ UNCHANGED otherThanPublish

\* mutant: the channel is closed on the success path only
PubDeferClose_OnSuccessOnly ==
    /\ rKind = "Publish"
    /\ pubPc = "defer"
    /\ pubCh' = IF pubSent THEN pubCh - 1 ELSE pubCh
    /\ pubPc' = "idle"
    /\ pubSent' = FALSE
    /\ DcAfterCall(pubSent)
    /\ UNCHANGED <<pubLog, pubClientClosed, pubClosedAtCall>>
    /\ UNCHANGED otherThanPublish

\* the closure returns: the deferred _ = ch.Close() runs, then DoContext gets the result
PubDeferClose ==
    /\ rKind = "Publish"
    /\ pubPc = "defer"
    /\ pubCh' = pubCh - 1
    /\ pubPc' = "idle"
    /\ pubSent' = FALSE
    /\ DcAfterCall(pubSent)
    /\ UNCHANGED <<pubLog, pubClientClosed, pubClosedAtCall>>
    /\ UNCHANGED otherThanPublish

\* another goroutine calls Close on the publisher's client
PubClientClose ==
    /\ rKind = "Publish"
    /\ rPc # "done"
    /\ ~pubClientClosed
    /\ pubClientClosed' = TRUE
    /\ UNCHANGED <<pubPc, pubCh, pubSent, pubLog, pubClosedAtCall>>
    /\ UNCHANGED retryVars
    /\ UNCHANGED otherThanPublish

NextPublish ==
    \/ \E ans \in {"channel", "amqp.Error", "ErrClientClosed"} : PubGetChannel(ans)
    \/ \E ok \in BOOLEAN : PubSend(ok)
    \/ PubDeferClose
    \/ PubClientClose
    \/ DcWait
    \/ DcCancelled
    \/ DcReturn
    \/ DcCtxCancel

----------------------------------------------------------------------------
\* rabbitmq.Consumer: one call of consume with its pool of workers.  Each worker
\* runs processDelivery, whose handler invocations are retried by retry.DoContext.

Workers == 1..MaxWorkers
Deliveries == 1..MaxDeliveries

NoWorker == [pc |-> "none", msg |-> 0, i |-> 0, res |-> "none"]

\* ConsumerConfig.AutoAck with the flags of ConsumerConfig.Ask and ConsumerConfig.Nack
\* (the flags are read in manual mode only)
AckCfgs ==
    { [AutoAck |-> TRUE, Ask |-> [Multiple |-> FALSE],
       Nack |-> [Multiple |-> FALSE, Requeue |-> TRUE]],
      [AutoAck |-> FALSE, Ask |-> [Multiple |-> FALSE],
       Nack |-> [Multiple |-> FALSE, Requeue |-> TRUE]],
      [AutoAck |-> FALSE, Ask |-> [Multiple |-> TRUE],
       Nack |-> [Multiple |-> TRUE, Requeue |-> FALSE]] }

ConsIdle ==
    /\ cPc = "off"
    /\ cWorkersIn = 0
    /\ cCfg = [Workers |-> 0, AutoAck |-> FALSE, Ask |-> [Multiple |-> FALSE],
               Nack |-> [Multiple |-> FALSE, Requeue |-> FALSE]]
    /\ cAttempts = 0
    /\ cCh = 0
    /\ cRet = "none"
    /\ cCtxDone = FALSE
    /\ cClientDone = FALSE
    /\ cCancelCalled = FALSE
    /\ msgsClosed = FALSE
    /\ cNext = 1
    /\ wk = [w \in Workers |-> NoWorker]
    /\ hCount = [d \in Deliveries |-> 0]
    /\ hLast = [d \in Deliveries |-> "none"]
    /\ cAcks = [d \in Deliveries |-> <<>>]
    /\ cDone = {}
    /\ sPc = "off"
    /\ sRet = "none"
    /\ sCalls = 0
    /\ sFailsNoWait = 0

\* NewConsumer: if cfg.Workers <= 0 { cfg.Workers = 1 }
NewConsumer(workers, cfg) ==
    [Workers |-> IF workers <= 0 THEN 1 ELSE workers,
     AutoAck |-> cfg.AutoAck,
     Ask |-> cfg.Ask,
     Nack |-> cfg.Nack]

\* a consumer made by NewConsumer, whose Start has just called consume
ConsInit ==
    /\ cPc = "getChannel"
    /\ cWorkersIn \in (-1)..MaxWorkers
    /\ \E cfg \in AckCfgs : cCfg = NewConsumer(cWorkersIn, cfg)
    /\ cAttempts \in 0..MaxConsumeAttempts
    /\ cCh = 0
    /\ cRet = "none"
    /\ cCtxDone = FALSE
    /\ cClientDone = FALSE
    /\ cCancelCalled = FALSE
    /\ msgsClosed = FALSE
    /\ cNext = 1
    /\ wk = [w \in Workers |-> NoWorker]
    /\ hCount = [d \in Deliveries |-> 0]
    /\ hLast = [d \in Deliveries |-> "none"]
    /\ cAcks = [d \in Deliveries |-> <<>>]
    /\ cDone = {}
    /\ sPc = "off"
    /\ sRet = "none"
    /\ sCalls = 0
    /\ sFailsNoWait = 0

\* a consumer made by NewConsumer, whose Start has just been called; its handler
\* is given one or two attempts per delivery and acknowledges one delivery at a
\* time (a policy without attempts and acknowledgments of several deliveries are
\* followed in ConsInit)
StartInit ==
    /\ sPc = "select"
    /\ sRet = "none"
    /\ sCalls = 0
    /\ sFailsNoWait = 0
    /\ cPc = "idle"
    /\ cWorkersIn \in 1..MaxWorkers
    /\ \E cfg \in AckCfgs : ~cfg.Ask.Multiple /\ cCfg = NewConsumer(cWorkersIn, cfg)
    /\ cAttempts \in 1..2
    /\ cCh = 0
    /\ cRet = "none"
    /\ cCtxDone = FALSE
    /\ cClientDone = FALSE
    /\ cCancelCalled = FALSE
    /\ msgsClosed = FALSE
    /\ cNext = 1
    /\ wk = [w \in Workers |-> NoWorker]
    /\ hCount = [d \in Deliveries |-> 0]
    /\ hLast = [d \in Deliveries |-> "none"]
    /\ cAcks = [d \in Deliveries |-> <<>>]
    /\ cDone = {}

\* workerCtx is done: it is a child of ctx, and consume calls its cancel()
WorkerCtxDone == cCtxDone \/ cCancelCalled

\* consume: ch, err := c.client.GetChannel(); if err != nil { return ... };
\* defer ch.Close()
ConsumeGetChannel(ans) ==
    /\ cPc = "getChannel"
    /\ ans \in (IF cClientDone THEN {"ErrClientClosed"} ELSE {"channel", "amqp.Error"})
    /\ IF ans = "channel"
         THEN /\ cCh' = cCh + 1
              /\ cPc' = "subscribe"
              /\ UNCHANGED cRet
         ELSE /\ cRet' = "failed to get channel"
              /\ cPc' = "returned"
              /\ UNCHANGED cCh
    /\ UNCHANGED <<cWorkersIn, cCfg, cAttempts, cCtxDone, cClientDone, cCancelCalled,
                   msgsClosed, cNext, wk, hCount, hLast, cAcks, cDone>>
    /\ UNCHANGED otherThanConsumer

\* consume: ch.Qos(...) and ch.Consume(...); either may fail and consume returns
ConsumeSubscribe(ok) ==
    /\ cPc = "subscribe"
    /\ IF ok
         THEN /\ cPc' = "spawn"
              /\ UNCHANGED cRet
         ELSE /\ cRet' = "failed to start consumer"
              /\ cPc' = "defer"
    /\ UNCHANGED <<cWorkersIn, cCfg, cAttempts, cCh, cCtxDone, cClientDone, cCancelCalled,
                   msgsClosed, cNext, wk, hCount, hLast, cAcks, cDone>>
    /\ UNCHANGED otherThanConsumer

\* the cases of consume's select that are ready; default runs when none is
ReadyBranches ==
    LET ready == (IF cCtxDone THEN {"ctx"} ELSE {}) \cup (IF cClientDone THEN {"client"} ELSE {})
    IN  IF ready = {} THEN {"default"} ELSE ready

\* mutant: as many workers are started as there are goroutine slots
ConsumeSpawn_AllSlots(branch) ==
    /\ cPc = "spawn"
    /\ branch \in ReadyBranches
    /\ wk' = [w \in Workers |-> [NoWorker EXCEPT !.pc = "recv"]]
    /\ cCancelCalled' = (branch # "default")
    /\ cPc' = IF branch = "ctx" THEN "wait.ctx"
              ELSE IF branch = "client" THEN "wait.client" ELSE "wait.default"
    /\ UNCHANGED <<cWorkersIn, cCfg, cAttempts, cCh, cRet, cCtxDone, cClientDone,
                   msgsClosed, cNext, hCount, hLast, cAcks, cDone>>
    /\ UNCHANGED otherThanConsumer

\* consume: workerCtx, cancel := context.WithCancel(ctx); c.config.Workers goroutines
\* are started; then the select: on ctx.Done() or the client's Done() cancel() is
\* called, and in every case wg.Wait() follows
ConsumeSpawn(branch) ==
    /\ cPc = "spawn"
    /\ branch \in ReadyBranches
    /\ wk' = [w \in Workers |-> IF w <= cCfg.Workers THEN [NoWorker EXCEPT !.pc = "recv"]
                                 ELSE NoWorker]
    /\ cCancelCalled' = (branch # "default")
    /\ cPc' = IF branch = "ctx" THEN "wait.ctx"
              ELSE IF branch = "client" THEN "wait.client" ELSE "wait.default"
    /\ UNCHANGED <<cWorkersIn, cCfg, cAttempts, cCh, cRet, cCtxDone, cClientDone,
                   msgsClosed, cNext, hCount, hLast, cAcks, cDone>>
    /\ UNCHANGED otherThanConsumer

\* mutant: consume returns nil when its workers ended on their own
ConsumeWaitDone_NilOnDefault ==
    /\ cPc \in {"wait.ctx", "wait.client", "wait.default"}
    /\ \A w \in Workers : wk[w].pc \in {"none", "exit"}
    /\ cRet' = IF cPc = "wait.ctx" THEN "ctx.Err"
               ELSE IF cPc = "wait.client" THEN "ErrClientClosed"
               ELSE "nil"
    /\ cPc' = "defer"
    /\ UNCHANGED <<cWorkersIn, cCfg, cAttempts, cCh, cCtxDone, cClientDone, cCancelCalled,
                   msgsClosed, cNext, wk, hCount, hLast, cAcks, cDone>>
    /\ UNCHANGED otherThanConsumer

\* consume: wg.Wait() returns when every worker has returned; the return value is
\* the one of the select case taken
ConsumeWaitDone ==
    /\ cPc \in {"wait.ctx", "wait.client", "wait.default"}
    /\ \A w \in Workers : wk[w].pc \in {"none", "exit"}
    /\ cRet' = IF cPc = "wait.ctx" THEN "ctx.Err"
               ELSE IF cPc = "wait.client" THEN "ErrClientClosed"
               ELSE "ErrWorkersTerminated"
    /\ cPc' = "defer"
    /\ UNCHANGED <<cWorkersIn, cCfg, cAttempts, cCh, cCtxDone, cClientDone, cCancelCalled,
                   msgsClosed, cNext, wk, hCount, hLast, cAcks, cDone>>
    /\ UNCHANGED otherThanConsumer

\* consume returns: the deferred cancel() (when it was registered) and the deferred
\* _ = ch.Close() run
ConsumeDefer ==
    /\ cPc = "defer"
    /\ cCh' = cCh - 1
    /\ cCancelCalled' = (cCancelCalled \/ cRet # "failed to start consumer")
    /\ msgsClosed' = TRUE
    /\ cPc' = "returned"
    /\ UNCHANGED <<cWorkersIn, cCfg, cAttempts, cRet, cCtxDone, cClientDone,
                   cNext, wk, hCount, hLast, cAcks, cDone>>
    /\ UNCHANGED otherThanConsumer

\* the caller cancels ctx
ConsCtxCancel ==
    /\ IF sPc = "off" THEN cPc \notin {"off", "returned"} ELSE sPc # "returned"
    /\ ~cCtxDone
    /\ cCtxDone' = TRUE
    /\ UNCHANGED <<cPc, cWorkersIn, cCfg, cAttempts, cCh, cRet, cClientDone, cCancelCalled,
                   msgsClosed, cNext, wk, hCount, hLast, cAcks, cDone>>
    /\ UNCHANGED otherThanConsumer

\* another goroutine closes the client: c.cancel() makes c.client.Context() done
\* (consume reads it in GetChannel and in its select, not after; Start reads it in
\* its select and in backoffWait)
ConsClientClose ==
    /\ \/ cPc \in {"getChannel", "subscribe", "spawn"}
       \/ sPc \in {"select", "healthy", "backoff"}
    /\ ~cClientDone
    /\ cClientDone' = TRUE
    /\ UNCHANGED <<cPc, cWorkersIn, cCfg, cAttempts, cCh, cRet, cCtxDone, cCancelCalled,
                   msgsClosed, cNext, wk, hCount, hLast, cAcks, cDone>>
    /\ UNCHANGED otherThanConsumer

\* the channel or its connection goes away: amqp091 closes msgs
MsgsClose ==
    /\ cPc \in {"spawn", "wait.ctx", "wait.client", "wait.default"}
    /\ ~msgsClosed
    /\ msgsClosed' = TRUE
    /\ UNCHANGED <<cPc, cWorkersIn, cCfg, cAttempts, cCh, cRet, cCtxDone, cClientDone,
                   cCancelCalled, cNext, wk, hCount, hLast, cAcks, cDone>>
    /\ UNCHANGED otherThanConsumer

\* processDelivery calls retry.DoContext, which invokes c.handler(ctx, msg) as its
\* first attempt; under a policy that allows no attempt it returns nil at once
ProcessDeliveryEnter(d) ==
    IF 0 < cAttempts
      THEN [pc |-> "handler", msg |-> d, i |-> 0, res |-> "none"]
      ELSE [pc |-> "ack", msg |-> d, i |-> 0, res |-> "nil"]

\* worker: case msg, ok := <-msgs with ok: c.processDelivery(ctx, msg) is entered
WorkerRecv(w) ==
    /\ wk[w].pc = "recv"
    /\ ~msgsClosed
    /\ cNext <= MaxDeliveries
    /\ wk' = [wk EXCEPT ![w] = ProcessDeliveryEnter(cNext)]
    /\ cNext' = cNext + 1
    /\ UNCHANGED <<cPc, cWorkersIn, cCfg, cAttempts, cCh, cRet, cCtxDone, cClientDone,
                   cCancelCalled, msgsClosed, hCount, hLast, cAcks, cDone>>
    /\ UNCHANGED otherThanConsumer

\* worker: case <-ctx.Done(): return
WorkerCtxExit(w) ==
    /\ wk[w].pc = "recv"
    /\ WorkerCtxDone
    /\ wk' = [wk EXCEPT ![w] = [NoWorker EXCEPT !.pc = "exit"]]
    /\ UNCHANGED <<cPc, cWorkersIn, cCfg, cAttempts, cCh, cRet, cCtxDone, cClientDone,
                   cCancelCalled, msgsClosed, cNext, hCount, hLast, cAcks, cDone>>
    /\ UNCHANGED otherThanConsumer

\* worker: case msg, ok := <-msgs with !ok: return
WorkerMsgsExit(w) ==
    /\ wk[w].pc = "recv"
    /\ msgsClosed
    /\ wk' = [wk EXCEPT ![w] = [NoWorker EXCEPT !.pc = "exit"]]
    /\ UNCHANGED <<cPc, cWorkersIn, cCfg, cAttempts, cCh, cRet, cCtxDone, cClientDone,
                   cCancelCalled, msgsClosed, cNext, hCount, hLast, cAcks, cDone>>
    /\ UNCHANGED otherThanConsumer

\* the manual-mode acknowledgment of processDelivery for a result of DoContext
AckFor(res) ==
    IF res = "nil"
      THEN [kind |-> "Ack", multiple |-> cCfg.Ask.Multiple, requeue |-> FALSE]
      ELSE [kind |-> "Nack", multiple |-> cCfg.Nack.Multiple, requeue |-> cCfg.Nack.Requeue]

\* c.handler(ctx, msg) returns; DoContext returns nil on success and the error when
\* the attempts are exhausted, otherwise it waits for the delay
HandlerEnd(w, ok) ==
    /\ wk[w].pc = "handler"
    /\ hCount' = [hCount EXCEPT ![wk[w].msg] = @ + 1]
    /\ hLast' = [hLast EXCEPT ![wk[w].msg] = IF ok THEN "nil" ELSE "err"]
    /\ wk' = [wk EXCEPT ![w].pc = IF ok \/ wk[w].i + 1 >= cAttempts THEN "ack" ELSE "wait",
                         ![w].res = IF ok THEN "nil"
                                    ELSE IF wk[w].i + 1 >= cAttempts THEN "err" ELSE "none"]
    /\ UNCHANGED <<cPc, cWorkersIn, cCfg, cAttempts, cCh, cRet, cCtxDone, cClientDone,
                   cCancelCalled, msgsClosed, cNext, cAcks, cDone>>
    /\ UNCHANGED otherThanConsumer

\* DoContext: the delay between two attempts elapses and the handler is invoked again
RetryWaitElapsed(w) ==
    /\ wk[w].pc = "wait"
    /\ wk' = [wk EXCEPT ![w].pc = "handler", ![w].i = @ + 1]
    /\ UNCHANGED <<cPc, cWorkersIn, cCfg, cAttempts, cCh, cRet, cCtxDone, cClientDone,
                   cCancelCalled, msgsClosed, cNext, hCount, hLast, cAcks, cDone>>
    /\ UNCHANGED otherThanConsumer

\* DoContext: the wait is interrupted by cancellation; the cancellation error is returned
RetryWaitCancelled(w) ==
    /\ wk[w].pc = "wait"
    /\ WorkerCtxDone
    /\ wk' = [wk EXCEPT ![w].pc = "ack", ![w].res = "ctx"]
    /\ UNCHANGED <<cPc, cWorkersIn, cCfg, cAttempts, cCh, cRet, cCtxDone, cClientDone,
                   cCancelCalled, msgsClosed, cNext, hCount, hLast, cAcks, cDone>>
    /\ UNCHANGED otherThanConsumer

\* mutant: the delivery is acknowledged whatever DoContext returned
ProcessDeliveryAck_AlwaysAck(w) ==
    /\ wk[w].pc = "ack"
    /\ cAcks' = IF cCfg.AutoAck THEN cAcks
                ELSE [cAcks EXCEPT ![wk[w].msg] = Append(@, AckFor("nil"))]
    /\ cDone' = cDone \cup {wk[w].msg}
    /\ wk' = [wk EXCEPT ![w] = [NoWorker EXCEPT !.pc = "recv"]]
    /\ UNCHANGED <<cPc, cWorkersIn, cCfg, cAttempts, cCh, cRet, cCtxDone, cClientDone,
                   cCancelCalled, msgsClosed, cNext, hCount, hLast>>
    /\ UNCHANGED otherThanConsumer

\* processDelivery after DoContext returned: with AutoAck nothing is sent; otherwise
\* msg.Nack(Nack.Multiple, Nack.Requeue) on an error and msg.Ack(Ask.Multiple) on nil.
\* processDelivery returns and the worker goes back to its select.
ProcessDeliveryAck(w) ==
    /\ wk[w].pc = "ack"
    /\ cAcks' = IF cCfg.AutoAck THEN cAcks
                ELSE [cAcks EXCEPT ![wk[w].msg] = Append(@, AckFor(wk[w].res))]
    /\ cDone' = cDone \cup {wk[w].msg}
    /\ wk' = [wk EXCEPT ![w] = [NoWorker EXCEPT !.pc = "recv"]]
    /\ UNCHANGED <<cPc, cWorkersIn, cCfg, cAttempts, cCh, cRet, cCtxDone, cClientDone,
                   cCancelCalled, msgsClosed, cNext, hCount, hLast>>
    /\ UNCHANGED otherThanConsumer

NextConsumer ==
    \/ \E ans \in {"channel", "amqp.Error", "ErrClientClosed"} : ConsumeGetChannel(ans)
    \/ \E ok \in BOOLEAN : ConsumeSubscribe(ok)
    \/ \E branch \in {"ctx", "client", "default"} : ConsumeSpawn(branch)
    \/ ConsumeWaitDone
    \/ ConsumeDefer
    \/ ConsCtxCancel
    \/ ConsClientClose
    \/ MsgsClose
    \/ \E w \in Workers : WorkerRecv(w)
    \/ \E w \in Workers : WorkerCtxExit(w)
    \/ \E w \in Workers : WorkerMsgsExit(w)
    \/ \E w \in Workers, ok \in BOOLEAN : HandlerEnd(w, ok)
    \/ \E w \in Workers : RetryWaitElapsed(w)
    \/ \E w \in Workers : RetryWaitCancelled(w)
    \/ \E w \in Workers : ProcessDeliveryAck(w)

\* Start: the select at the head of the loop: return ctx.Err() when ctx is done,
\* ErrClientClosed when the client's context is done, else fall through
StartSelect(branch) ==
    /\ sPc = "select"
    /\ branch \in ReadyBranches
    /\ IF branch = "default"
         THEN /\ sPc' = "healthy"
              /\ UNCHANGED sRet
         ELSE /\ sPc' = "returned"
              /\ sRet' = IF branch = "ctx" THEN "ctx.Err" ELSE "ErrClientClosed"
    /\ UNCHANGED <<sCalls, sFailsNoWait>>
    /\ UNCHANGED consVars
    /\ UNCHANGED otherThanStart

\* the consume call that has returned failed on its own account (the channel could
\* not be had, the subscription failed, or msgs was closed under the workers), not
\* because ctx was cancelled or the client closed
ConsumeFailed ==
    /\ cRet \in {"failed to get channel", "failed to start consumer", "ErrWorkersTerminated"}
    /\ ~cCtxDone
    /\ ~cClientDone

\* mutant: a consume call that failed ends Start with that error
StartConsumeReturned_GivesUp ==
    /\ sPc = "consume"
    /\ cPc = "returned"
    /\ sPc' = "returned"
    /\ sRet' = cRet
    /\ sFailsNoWait' = IF ConsumeFailed THEN Min(sFailsNoWait + 1, MaxConsumes)
                     ELSE sFailsNoWait
    /\ cPc' = "idle"
    /\ UNCHANGED <<cWorkersIn, cCfg, cAttempts, cCh, cRet, cCtxDone, cClientDone,
                   cCancelCalled, msgsClosed, cNext, wk, hCount, hLast, cAcks, cDone>>
    /\ UNCHANGED sCalls
    /\ UNCHANGED otherThanStart

\* Start: if !c.client.Healthy() { c.backoffWait(...); continue }; otherwise
\* currentDelay is reset and c.consume(ctx) is called.  healthy is what Healthy()
\* answers: false once the client is closed
StartHealthy(healthy) ==
    /\ sPc = "healthy"
    /\ cClientDone => ~healthy
    /\ IF healthy
         THEN /\ sCalls < MaxConsumes
              /\ sCalls' = sCalls + 1
              /\ sPc' = "consume"
              /\ cPc' = "getChannel"
              /\ cRet' = "none"
              /\ cCancelCalled' = FALSE
              /\ msgsClosed' = FALSE
         ELSE /\ sPc' = "backoff"
              /\ UNCHANGED <<sCalls, cPc, cRet, cCancelCalled, msgsClosed>>
    /\ UNCHANGED <<sRet, sFailsNoWait>>
    /\ UNCHANGED <<cWorkersIn, cCfg, cAttempts, cCh, cCtxDone, cClientDone,
                   cNext, wk, hCount, hLast, cAcks, cDone>>
    /\ UNCHANGED otherThanStart

\* backoffWait: case <-timer.C: the wait has elapsed (the delay grows); Start continues
BackoffWaitElapsed ==
    /\ sPc = "backoff"
    /\ sPc' = "select"
    /\ sFailsNoWait' = 0
    /\ UNCHANGED <<sRet, sCalls>>
    /\ UNCHANGED consVars
    /\ UNCHANGED otherThanStart

\* backoffWait: case <-ctx.Done() or <-c.client.Context().Done(): it returns early
BackoffWaitInterrupted ==
    /\ sPc = "backoff"
    /\ cCtxDone \/ cClientDone
    /\ sPc' = "select"
    /\ UNCHANGED <<sRet, sCalls, sFailsNoWait>>
    /\ UNCHANGED consVars
    /\ UNCHANGED otherThanStart

\* Start: if err := c.consume(ctx); err != nil { continue }; return nil.  The worker
\* goroutines of the call are gone and its channel is closed
StartConsumeReturned ==
    /\ sPc = "consume"
    /\ cPc = "returned"
    /\ IF cRet # "nil"
         THEN /\ sPc' = "select"
              /\ UNCHANGED sRet
         ELSE /\ sPc' = "returned"
              /\ sRet' = "nil"
    /\ sFailsNoWait' = IF ConsumeFailed THEN Min(sFailsNoWait + 1, MaxConsumes)
                     ELSE sFailsNoWait
    /\ cPc' = "idle"
    /\ wk' = [w \in Workers |-> NoWorker]
    /\ UNCHANGED <<cWorkersIn, cCfg, cAttempts, cCh, cRet, cCtxDone, cClientDone,
                   cCancelCalled, msgsClosed, cNext, hCount, hLast, cAcks, cDone>>
    /\ UNCHANGED sCalls
    /\ UNCHANGED otherThanStart

NextStart ==
    \/ \E branch \in {"ctx", "client", "default"} : StartSelect(branch)
    \/ \E healthy \in BOOLEAN : StartHealthy(healthy)
    \/ BackoffWaitElapsed
    \/ BackoffWaitInterrupted
    \/ StartConsumeReturned
    \/ NextConsumer

----------------------------------------------------------------------------
\* dlq.DLQ.PublishError, followed through its own steps

NoValue == [key |-> 0, error |-> 0, attempt |-> 0, fallback |-> FALSE]

DlqIdle ==
    /\ dqPc = "off"
    /\ dqIn = [msg |-> 0, err |-> 0, attempt |-> 0]
    /\ dqMarshalErr = FALSE
    /\ dqVal = NoValue
    /\ dqSends = 0
    /\ dqSendErr = FALSE
    /\ dqRet = NotReturned

\* PublishError(ctx, msg, err, attempt) is called: err is a handler error (they are
\* numbered), attempt the number of attempts made
DlqInit ==
    /\ dqPc = "marshal"
    /\ dqIn \in [msg : Msgs, err : 1..MaxAttemptsBound, attempt : 1..MaxAttemptsBound]
    /\ dqMarshalErr = FALSE
    /\ dqVal = NoValue
    /\ dqSends = 0
    /\ dqSendErr = FALSE
    /\ dqRet = NotReturned

\* mutant: a failure of json.Marshal ends the call with an error and nothing is sent
DlqMarshal_GivesUp(ok) ==
    /\ dqPc = "marshal"
    /\ dqMarshalErr' = ~ok
    /\ IF ok
         THEN /\ dqVal' = Envelope(dqIn.msg, dqIn.err, dqIn.attempt, TRUE)
              /\ dqPc' = "send"
              /\ UNCHANGED dqRet
         ELSE /\ dqRet' = ErrOf("marshal")
              /\ dqPc' = "done"
              /\ UNCHANGED dqVal
    /\ UNCHANGED <<dqIn, dqSends, dqSendErr>>
    /\ UNCHANGED otherThanDlq

\* val, errMarshal := json.Marshal(payload); if errMarshal != nil { log; val =
\* []byte(fallbackData) }.  ok is what json.Marshal answers, as far as its signature
\* goes
DlqMarshal(ok) ==
    /\ dqPc = "marshal"
    /\ dqMarshalErr' = ~ok
    /\ dqVal' = Envelope(dqIn.msg, dqIn.err, dqIn.attempt, ok)
    /\ dqPc' = "send"
    /\ UNCHANGED <<dqIn, dqSends, dqSendErr, dqRet>>
    /\ UNCHANGED otherThanDlq

\* if errSend := d.producer.Send(ctx, msg.Key, val); errSend != nil { return
\* fmt.Errorf(...) }; return nil
DlqSend(ok) ==
    /\ dqPc = "send"
    /\ dqSends' = dqSends + 1
    /\ dqSendErr' = ~ok
    /\ dqRet' = IF ok THEN Nil ELSE ErrOf("send")
    /\ dqPc' = "done"
    /\ UNCHANGED <<dqIn, dqMarshalErr, dqVal>>
    /\ UNCHANGED otherThanDlq

NextDlq ==
    \/ \E ok \in BOOLEAN : DlqMarshal(ok)
    \/ \E ok \in BOOLEAN : DlqSend(ok)

----------------------------------------------------------------------------
\* The delay between reconnect attempts, in RabbitClient.reconnectLoop and in
\* Consumer.Start / backoffWait.  Durations are counted in units of 30 minutes.

\* const maxDelay = 1 * time.Hour
maxDelay == 2

DelayIdle ==
    /\ dlKind = "off"
    /\ dlStrategy = [Attempts |-> 0, Delay |-> 0, Backoff2 |-> 2]
    /\ dlDelay = 0
    /\ dlLast = 0
    /\ dlWaits = 0

\* delay := c.config.ReconnectStrat.Delay (reconnectLoop);
\* currentDelay := c.client.config.ReconnectStrat.Delay (Start)
DelayInit ==
    /\ dlKind \in {"reconnectLoop", "backoffWait"}
    /\ dlStrategy \in Strategies
    /\ dlDelay = dlStrategy.Delay
    /\ dlLast = 0
    /\ dlWaits = 0

\* reconnectLoop, after a failed connect: case <-time.After(delay), then
\* delay = time.Duration(float64(delay) * c.config.ReconnectStrat.Backoff)
ReconnectDelay ==
    /\ dlKind = "reconnectLoop"
    /\ dlWaits < MaxWaits
    /\ dlLast' = dlDelay
    /\ dlDelay' = NextDelay(dlDelay, dlStrategy.Backoff2)
    /\ dlWaits' = dlWaits + 1
    /\ UNCHANGED <<dlKind, dlStrategy>>
    /\ UNCHANGED otherThanDelay

\* backoffWait: timer := time.NewTimer(*currentDelay); case <-timer.C:
\* *currentDelay = min(time.Duration(float64(*currentDelay)*strategy.Backoff), maxDelay)
BackoffDelay ==
    /\ dlKind = "backoffWait"
    /\ dlWaits < MaxWaits
    /\ dlLast' = dlDelay
    /\ dlDelay' = Min(NextDelay(dlDelay, dlStrategy.Backoff2), maxDelay)
    /\ dlWaits' = dlWaits + 1
    /\ UNCHANGED <<dlKind, dlStrategy>>
    /\ UNCHANGED otherThanDelay

\* Start, when the client is healthy again: currentDelay = ReconnectStrat.Delay
StartDelayReset ==
    /\ dlKind = "backoffWait"
    /\ dlWaits > 0
    /\ dlDelay' = dlStrategy.Delay
    /\ UNCHANGED <<dlKind, dlStrategy, dlLast, dlWaits>>
    /\ UNCHANGED otherThanDelay

NextDelays ==
    \/ ReconnectDelay
    \/ BackoffDelay
    \/ StartDelayReset

----------------------------------------------------------------------------
\* transaction.manager.ExecuteInTransaction

TxIdle ==
    /\ txPc = "off"
    /\ txCfg = [maxAttempts |-> 0, baseRetryDelay |-> 0, maxRetryDelay |-> 0]
    /\ txAttempt = 0
    /\ txBackoff = 0
    /\ txLog = <<>>
    /\ txFn = 0
    /\ txWaits = 0
    /\ txRet = NotReturned
    /\ txCtxDone = FALSE

\* the managers NewManager returns: those that passed manager.validate
TxCfgs ==
    {cfg \in [maxAttempts : 0..MaxAttemptsBound, baseRetryDelay : 0..MaxDelayBound,
              maxRetryDelay : 0..MaxDelayBound] :
        /\ ~(cfg.maxAttempts <= 0)
        /\ ~(cfg.baseRetryDelay <= 0)
        /\ ~(cfg.maxRetryDelay <= 0)
        /\ ~(cfg.baseRetryDelay > cfg.maxRetryDelay)}

\* ExecuteInTransaction is entered: var lastErr error; currentBackoff :=
\* tm.baseRetryDelay; attempt := 1
TxInit ==
    /\ txPc = "attempt"
    /\ txCfg \in TxCfgs
    /\ txAttempt = 1
    /\ txBackoff = txCfg.baseRetryDelay
    /\ txLog = <<>>
    /\ txFn = 0
    /\ txWaits = 0
    /\ txRet = NotReturned
    /\ txCtxDone = FALSE

\* what one doTransaction call can return: nil, or an error of BeginTx, of fn or of
\* tx.Commit, which isRetryableError classifies one way or the other
TxOk == [stage |-> "none", retryable |-> FALSE]

TxOutcomes == {TxOk} \cup [stage : {"begin", "fn", "commit"}, retryable : BOOLEAN]

\* mutant: every error is retried while attempts remain
TxAttempt_RetriesAll(out) ==
    /\ txPc = "attempt"
    /\ txAttempt <= txCfg.maxAttempts
    /\ txLog' = Append(txLog, out)
    /\ txFn' = IF out.stage = "begin" THEN txFn ELSE txFn + 1
    /\ IF out = TxOk
         THEN /\ txRet' = Nil
              /\ txPc' = "done"
         ELSE IF txAttempt = txCfg.maxAttempts
                THEN /\ txRet' = ErrOf(txAttempt)
                     /\ txPc' = "done"
                ELSE /\ txPc' = "wait"
                     /\ UNCHANGED txRet
    /\ UNCHANGED <<txCfg, txAttempt, txBackoff, txWaits, txCtxDone>>
    /\ UNCHANGED otherThanTx

\* err := tm.doTransaction(ctx, tsName, fn) (BeginTx, then fn, then Commit);
\* if err == nil { return nil }; if !isRetryableError(err) || attempt ==
\* tm.maxAttempts { return err }; otherwise the jitter is drawn and the select follows
TxAttempt(out) ==
    /\ txPc = "attempt"
    /\ txAttempt <= txCfg.maxAttempts
    /\ txLog' = Append(txLog, out)
    /\ txFn' = IF out.stage = "begin" THEN txFn ELSE txFn + 1
    /\ IF out = TxOk
         THEN /\ txRet' = Nil
              /\ txPc' = "done"
         ELSE IF ~out.retryable \/ txAttempt = txCfg.maxAttempts
                THEN /\ txRet' = ErrOf(txAttempt)
                     /\ txPc' = "done"
                ELSE /\ txPc' = "wait"
                     /\ UNCHANGED txRet
    /\ UNCHANGED <<txCfg, txAttempt, txBackoff, txWaits, txCtxDone>>
    /\ UNCHANGED otherThanTx

\* case <-time.After(jitter): currentBackoff = min(currentBackoff*_backoffMultiplier,
\* tm.maxRetryDelay); attempt++
TxWaitElapsed ==
    /\ txPc = "wait"
    /\ txBackoff' = Min(txBackoff * _backoffMultiplier, txCfg.maxRetryDelay)
    /\ txAttempt' = txAttempt + 1
    /\ txWaits' = txWaits + 1
    /\ txPc' = "attempt"
    /\ UNCHANGED <<txCfg, txLog, txFn, txRet, txCtxDone>>
    /\ UNCHANGED otherThanTx

\* case <-ctx.Done(): return ctx.Err()
TxWaitCancelled ==
    /\ txPc = "wait"
    /\ txCtxDone
    /\ txRet' = CtxErr
    /\ txPc' = "done"
    /\ UNCHANGED <<txCfg, txAttempt, txBackoff, txLog, txFn, txWaits, txCtxDone>>
    /\ UNCHANGED otherThanTx

\* the caller cancels ctx
TxCtxCancel ==
    /\ txPc \in {"attempt", "wait"}
    /\ ~txCtxDone
    /\ txCtxDone' = TRUE
    /\ UNCHANGED <<txPc, txCfg, txAttempt, txBackoff, txLog, txFn, txWaits, txRet>>
    /\ UNCHANGED otherThanTx

NextTx ==
    \/ \E out \in TxOutcomes : TxAttempt(out)
    \/ TxWaitElapsed
    \/ TxWaitCancelled
    \/ TxCtxCancel

----------------------------------------------------------------------------
\* rabbitmq.NewClient

defaultConnectTimeout == 10     \* seconds
defaultHeartbeat == 10          \* seconds

NoClientYet == [client |-> FALSE, err |-> "none"]

NcIdle ==
    /\ ncPc = "off"
    /\ ncIn = [URL |-> "", ConnectTimeout |-> 0, Heartbeat |-> 0]
    /\ ncCfg = ncIn
    /\ ncRet = NoClientYet
    /\ ncDials = 0
    /\ ncDialErr = FALSE

\* the configurations a caller passes to NewClient
ClientConfigs ==
    [URL : {"", "amqp://broker"}, ConnectTimeout : 0..MaxTimeoutIn, Heartbeat : 0..MaxTimeoutIn]

\* NewClient(cfg) is called
NcInit ==
    /\ ncPc = "check"
    /\ ncIn \in ClientConfigs
    /\ ncCfg = [URL |-> "", ConnectTimeout |-> 0, Heartbeat |-> 0]
    /\ ncRet = NoClientYet
    /\ ncDials = 0
    /\ ncDialErr = FALSE

\* NewClient: if cfg.URL == "" { return nil, ErrMissingURL }; the defaults of
\* ConnectTimeout and Heartbeat; ctx, cancel := context.WithCancel(...); the client
\* is built and client.connect() is entered
NewClient ==
    /\ ncPc = "check"
    /\ IF ncIn.URL = ""
         THEN /\ ncPc' = "returned"
              /\ ncRet' = [client |-> FALSE, err |-> "ErrMissingURL"]
              /\ UNCHANGED ncCfg
         ELSE /\ ncPc' = "dial"
              /\ ncCfg' = [URL |-> ncIn.URL,
                           ConnectTimeout |-> IF ncIn.ConnectTimeout = 0
                                                THEN defaultConnectTimeout
                                                ELSE ncIn.ConnectTimeout,
                           Heartbeat |-> IF ncIn.Heartbeat = 0 THEN defaultHeartbeat
                                         ELSE ncIn.Heartbeat]
              /\ UNCHANGED ncRet
    /\ UNCHANGED <<ncIn, ncDials, ncDialErr>>
    /\ UNCHANGED rabbitVars
    /\ UNCHANGED otherThanNewClient

\* mutant: a failed initial dial is tried once more
InitialDial_Retries(ok) ==
    /\ ncPc = "dial"
    /\ ncDials' = ncDials + 1
    /\ IF ok
         THEN /\ conns' = [conns EXCEPT ![1].state = "open"]
              /\ ncPc' = "install"
              /\ UNCHANGED <<ncRet, ncDialErr, cancelled>>
         ELSE IF ncDials = 0
                THEN /\ UNCHANGED <<ncPc, ncRet, ncDialErr, cancelled, conns>>
                ELSE /\ ncDialErr' = TRUE
                     /\ cancelled' = TRUE
                     /\ ncRet' = [client |-> FALSE, err |-> "initial connect failed: dial error"]
                     /\ ncPc' = "returned"
                     /\ UNCHANGED conns
    /\ UNCHANGED <<ncIn, ncCfg>>
    /\ UNCHANGED <<conn, notify, closed, watcher, recon, closer, getter, channels>>
    /\ UNCHANGED otherThanNewClient

\* connect: conn, err := amqp091.DialConfig(...); if err != nil { return err }, and
\* NewClient: if err := client.connect(); err != nil { cancel(); return nil,
\* fmt.Errorf("initial connect failed: %w", err) }
InitialDial(ok) ==
    /\ ncPc = "dial"
    /\ ncDials' = ncDials + 1
    /\ IF ok
         THEN /\ conns' = [conns EXCEPT ![1].state = "open"]
              /\ ncPc' = "install"
              /\ UNCHANGED <<ncRet, ncDialErr, cancelled>>
         ELSE /\ ncDialErr' = TRUE
              /\ cancelled' = TRUE
              /\ ncRet' = [client |-> FALSE, err |-> "initial connect failed: dial error"]
              /\ ncPc' = "returned"
              /\ UNCHANGED conns
    /\ UNCHANGED <<ncIn, ncCfg>>
    /\ UNCHANGED <<conn, notify, closed, watcher, recon, closer, getter, channels>>
    /\ UNCHANGED otherThanNewClient

\* connect: c.mu.Lock(); oldConn := c.conn (nil); c.conn = conn; c.notify = make(...);
\* conn.NotifyClose(c.notify); c.mu.Unlock(); no old connection is there to close
InitialInstall ==
    /\ ncPc = "install"
    /\ conn' = 1
    /\ notify' = 1
    /\ conns' = [conns EXCEPT ![1].registered = TRUE]
    /\ ncPc' = "spawn"
    /\ UNCHANGED <<ncIn, ncCfg, ncRet, ncDials, ncDialErr>>
    /\ UNCHANGED <<closed, cancelled, watcher, recon, closer, getter, channels>>
    /\ UNCHANGED otherThanNewClient

\* connect: go c.watchConnection(); return nil.  NewClient: return client, nil
InitialSpawnWatcher ==
    /\ ncPc = "spawn"
    /\ watcher' = [watcher EXCEPT ![1] = [pc |-> "spawned", ch |-> 0]]
    /\ ncRet' = [client |-> TRUE, err |-> "nil"]
    /\ ncPc' = "returned"
    /\ UNCHANGED <<ncIn, ncCfg, ncDials, ncDialErr>>
    /\ UNCHANGED <<conn, notify, closed, cancelled, conns, recon, closer, getter, channels>>
    /\ UNCHANGED otherThanNewClient

\* NewClient, and beside it the broker losing the connection and the watcher that
\* connect started entering its select
NextNewClient ==
    \/ NewClient
    \/ \E ok \in BOOLEAN : InitialDial(ok)
    \/ InitialInstall
    \/ InitialSpawnWatcher
    \/ ConnLost(1)
    \/ WatchEnter(1)

----------------------------------------------------------------------------
\* dbpg.balancer

Callers == 1..MaxCallers

BalIdle ==
    /\ bMax = 0
    /\ bIdx = 0
    /\ bMu = 0
    /\ bCaller = [k \in Callers |-> [pc |-> "off", res |-> 0]]
    /\ bLog = <<>>

\* newBalancer(max): idx 0, the mutex free; max is len(slaveDSNs) in dbpg.New, and
\* any int for another caller of newBalancer
BalInit ==
    /\ bMax \in (0 - 1)..MaxSlaves
    /\ bIdx = 0
    /\ bMu = 0
    /\ bCaller = [k \in Callers |-> [pc |-> "idle", res |-> 0]]
    /\ bLog = <<>>

\* mutant: index() does not take the mutex
IndexLock_NoMutex(k) ==
    /\ bCaller[k].pc = "idle"
    /\ Len(bLog) + Cardinality({c \in Callers : bCaller[c].pc = "locked"}) < MaxCalls
    /\ bCaller' = [bCaller EXCEPT ![k].pc = "locked"]
    /\ UNCHANGED <<bMax, bIdx, bMu, bLog>>
    /\ UNCHANGED otherThanBalancer

\* index: b.mu.Lock()
IndexLock(k) ==
    /\ bCaller[k].pc = "idle"
    /\ Len(bLog) + Cardinality({c \in Callers : bCaller[c].pc = "locked"}) < MaxCalls
    /\ bMu = 0
    /\ bMu' = k
    /\ bCaller' = [bCaller EXCEPT ![k].pc = "locked"]
    /\ UNCHANGED <<bMax, bIdx, bLog>>
    /\ UNCHANGED otherThanBalancer

\* index: if b.max <= 0 { return 0 }; res := b.idx
IndexRead(k) ==
    /\ bCaller[k].pc = "locked"
    /\ LET res == IF bMax <= 0 THEN 0 ELSE bIdx
       IN  /\ bCaller' = [bCaller EXCEPT ![k] = [pc |-> IF bMax <= 0 THEN "unlock" ELSE "advance",
                                                 res |-> res]]
           /\ bLog' = Append(bLog, [by |-> k, res |-> res])
    /\ UNCHANGED <<bMax, bIdx, bMu>>
    /\ UNCHANGED otherThanBalancer

\* index: b.idx = (b.idx + 1) % b.max
IndexAdvance(k) ==
    /\ bCaller[k].pc = "advance"
    /\ bIdx' = (bIdx + 1) % bMax
    /\ bCaller' = [bCaller EXCEPT ![k].pc = "unlock"]
    /\ UNCHANGED <<bMax, bMu, bLog>>
    /\ UNCHANGED otherThanBalancer

\* index: the deferred b.mu.Unlock(); return res
IndexUnlock(k) ==
    /\ bCaller[k].pc = "unlock"
    /\ bMu' = IF bMu = k THEN 0 ELSE bMu
    /\ bCaller' = [bCaller EXCEPT ![k].pc = "idle"]
    /\ UNCHANGED <<bMax, bIdx, bLog>>
    /\ UNCHANGED otherThanBalancer

NextBalancer ==
    \/ \E k \in Callers : IndexLock(k)
    \/ \E k \in Callers : IndexRead(k)
    \/ \E k \in Callers : IndexAdvance(k)
    \/ \E k \in Callers : IndexUnlock(k)

----------------------------------------------------------------------------
\* Specifications.  Spec runs one of the subsystems: its initial states are the
\* union of the subsystems' initial states, and an action of a subsystem is
\* enabled only in that subsystem's states.

InitRetry == RetryInit /\ ProcIdle /\ RabbitIdle /\ PubIdle /\ ConsIdle /\ DlqIdle
    /\ DelayIdle /\ TxIdle /\ NcIdle /\ BalIdle

SpecRetry == InitRetry /\ [][NextRetry]_vars

InitProc == ProcInit /\ RetryIdle /\ RabbitIdle /\ PubIdle /\ ConsIdle /\ DlqIdle
    /\ DelayIdle /\ TxIdle /\ NcIdle /\ BalIdle

SpecProc == InitProc /\ [][NextProc]_vars

InitRabbit == RabbitInit /\ RetryIdle /\ ProcIdle /\ PubIdle /\ ConsIdle /\ DlqIdle
    /\ DelayIdle /\ TxIdle /\ NcIdle /\ BalIdle

SpecRabbit == InitRabbit /\ [][NextRabbit]_vars

\* The client's goroutines under the Go scheduler: a goroutine that can take its next
\* step eventually takes it, a timer eventually fires, and a dial that is tried again
\* and again eventually succeeds.  Connection losses, Close and GetChannel calls are
\* the environment's and are not forced.
RabbitFairness ==
    \A c \in Conns :
       /\ WF_vars(WatchEnter(c))
       /\ WF_vars(WatchCtxDone(c))
       /\ WF_vars(WatchNotified(c))
       /\ WF_vars(ReconCheck(c))
       /\ SF_vars(DialOk(c))
       /\ WF_vars(ConnectInstall(c))
       /\ WF_vars(ConnectCloseOld(c))
       /\ WF_vars(ConnectSpawnWatcher(c))
       /\ WF_vars(ReconWaitElapsed(c))

SpecRabbitFair == InitRabbit /\ [][NextRabbit]_vars /\ RabbitFairness

\* the two retry executors: retry.Do / retry.DoContext and the Processor's loop
SpecExecutors == (InitRetry \/ InitProc) /\ [][NextRetry \/ NextProc]_vars

InitPublish == PubInit /\ ProcIdle /\ RabbitIdle /\ ConsIdle /\ DlqIdle
    /\ DelayIdle /\ TxIdle /\ NcIdle /\ BalIdle

InitConsumer == ConsInit /\ RetryIdle /\ ProcIdle /\ RabbitIdle /\ PubIdle /\ DlqIdle
    /\ DelayIdle /\ TxIdle /\ NcIdle /\ BalIdle

SpecConsumer == InitConsumer /\ [][NextConsumer]_vars

\* the two message consumers: the RabbitMQ worker pool and the Kafka Processor
SpecAcks == (InitConsumer \/ InitProc) /\ [][NextConsumer \/ NextProc]_vars

\* the two users of a leased channel: Publish and consume
SpecSessions == (InitPublish \/ InitConsumer) /\ [][NextPublish \/ NextConsumer]_vars

InitDo == InitRetry /\ rKind = "Do"

SpecDo == InitDo /\ [][NextDo]_vars

InitDlq == DlqInit /\ RetryIdle /\ ProcIdle /\ RabbitIdle /\ PubIdle /\ ConsIdle
    /\ DelayIdle /\ TxIdle /\ NcIdle /\ BalIdle

SpecDlq == InitDlq /\ [][NextDlq]_vars

InitDelay == DelayInit /\ RetryIdle /\ ProcIdle /\ RabbitIdle /\ PubIdle /\ ConsIdle
    /\ DlqIdle /\ TxIdle /\ NcIdle /\ BalIdle

SpecDelay == InitDelay /\ [][NextDelays]_vars

InitTx == TxInit /\ RetryIdle /\ ProcIdle /\ RabbitIdle /\ PubIdle /\ ConsIdle
    /\ DlqIdle /\ DelayIdle /\ NcIdle /\ BalIdle

SpecTx == InitTx /\ [][NextTx]_vars

InitStart == StartInit /\ RetryIdle /\ ProcIdle /\ RabbitIdle /\ PubIdle /\ DlqIdle
    /\ DelayIdle /\ TxIdle /\ NcIdle /\ BalIdle

SpecStart == InitStart /\ [][NextStart]_vars

SpecPublish == InitPublish /\ [][NextPublish]_vars

InitNewClient == NcInit /\ RabbitIdle /\ RetryIdle /\ ProcIdle /\ PubIdle /\ ConsIdle
    /\ DlqIdle /\ DelayIdle /\ TxIdle /\ BalIdle

SpecNewClient == InitNewClient /\ [][NextNewClient]_vars

InitBalancer == BalInit /\ RabbitIdle /\ RetryIdle /\ ProcIdle /\ PubIdle /\ ConsIdle
    /\ DlqIdle /\ DelayIdle /\ TxIdle /\ NcIdle

SpecBalancer == InitBalancer /\ [][NextBalancer]_vars

Init == InitRetry \/ InitProc \/ InitRabbit \/ InitPublish \/ InitConsumer \/ InitStart
        \/ InitDlq \/ InitDelay \/ InitTx \/ InitNewClient \/ InitBalancer

Next == NextRetry \/ NextProc \/ NextRabbit \/ NextPublish \/ NextStart \/ NextDlq
        \/ NextDelays \/ NextTx \/ NextNewClient \/ NextBalancer

Spec == Init /\ [][Next]_vars

----------------------------------------------------------------------------
\* Properties

AllFail(calls) == \A i \in 1..Len(calls) : ~calls[i]

\* processing of message m has ended
Finished(m) ==
    /\ m < pNext
    /\ ~(pMsg = m /\ pPc \in {"handler", "backoff", "commitOk", "exhausted", "finalCommit"})

\* the retry loop of message m ended by exhaustion
GaveUp(m) ==
    \/ dlqTries[m] > 0
    \/ pMsg = m /\ pPc \in {"exhausted", "finalCommit"}
    \/ pCommitTries[m] > 0 /\ AllFail(hCalls[m])

\* envelopes of message m in the DLQ topic
Envs(m) == {i \in 1..Len(dlqTopic) : dlqTopic[i].key = m}

ProcRunning == pPc \notin {"idle", "new", "invalid", "ready"}

\* C1: with maxAttempts = N >= 1, an operation that fails on every invocation is
\* invoked exactly N times, no more and no fewer, before the executor gives up:
\* retry.Do returns after exactly N invocations, and the Processor leaves its retry
\* loop by exhaustion after exactly N handler invocations (an all-failing message
\* with fewer invocations was abandoned by cancellation, not given up).
C1_ExactlyNInvocations ==
    /\ rKind = "Do" =>
         /\ Len(rOutcomes) <= rStrategy.Attempts
         /\ (rPc = "done" /\ rStrategy.Attempts >= 1 /\ AllFail(rOutcomes))
               => Len(rOutcomes) = rStrategy.Attempts
    /\ ProcRunning =>
         \A m \in Msgs :
            /\ Len(hCalls[m]) <= pCfg.maxAttempts
            /\ GaveUp(m) => AllFail(hCalls[m]) /\ Len(hCalls[m]) = pCfg.maxAttempts
            /\ (Finished(m) /\ AllFail(hCalls[m]) /\ Len(hCalls[m]) < pCfg.maxAttempts)
                  => pCtxDone /\ ~GaveUp(m)

C1_Witness ==
    /\ rKind = "Do"
    /\ rPc = "done"
    /\ rStrategy.Attempts = 3
    /\ rOutcomes = <<FALSE, FALSE, FALSE>>

\* C2: an operation that fails K < N times and then succeeds makes the executor
\* return success after exactly K+1 invocations: a success is always the last
\* invocation, retry.Do returns nil on it, and the Processor goes to commit the
\* message without any DLQ publication.
C2_SuccessEndsRetry ==
    /\ rKind = "Do" =>
         \A k \in 1..Len(rOutcomes) :
            rOutcomes[k] => /\ k = Len(rOutcomes)
                            /\ k <= rStrategy.Attempts
                            /\ rPc = "done"
                            /\ rRet = Nil
    /\ ProcRunning =>
         \A m \in Msgs : \A k \in 1..Len(hCalls[m]) :
            hCalls[m][k] => /\ k = Len(hCalls[m])
                            /\ k <= pCfg.maxAttempts
                            /\ dlqTries[m] = 0
                            /\ Envs(m) = {}
                            /\ IF pMsg = m /\ pPc = "commitOk"
                                 THEN pCommitTries[m] = 0
                                 ELSE pCommitTries[m] = 1

C2_Witness ==
    /\ ProcRunning
    /\ pCfg.maxAttempts = 3
    /\ \E m \in Msgs : hCalls[m] = <<FALSE, TRUE>> /\ pCommitted[m] = 1 /\ Finished(m)

\* C3: when all N attempts fail the executor returns the error of the N-th (last)
\* invocation, never nil and never an earlier error; Publish returns what the
\* executor returns.
C3_LastErrorReturned ==
    (/\ rPc = "done"
     /\ rStrategy.Attempts >= 1
     /\ Len(rOutcomes) = rStrategy.Attempts
     /\ AllFail(rOutcomes))
    => /\ rRet = ErrOf(rStrategy.Attempts)
       /\ rKind = "DoContext" => PublishRet = ErrOf(rStrategy.Attempts)

C3_Witness ==
    /\ rKind = "Do"
    /\ rPc = "done"
    /\ rStrategy.Attempts = 3
    /\ AllFail(rOutcomes)
    /\ rRet = ErrOf(3)

C6_ClosedIsTerminal == [][closed => conn' = conn]_vars

\* background goroutines of the client have all returned
Quiesced ==
    /\ \A c \in Conns : watcher[c].pc \in {"none", "done"}
    /\ \A c \in Conns : recon[c].pc \in {"none", "done"}

\* a call of Close performed the teardown and returned
CloseReturned == \E k \in Closers : closer[k].pc = "done" /\ closer[k].won

\* C7 (as claimed): after Close has returned and the background goroutines have
\* quiesced, every connection the client ever dialed is closed.
C7_NoOpenConnectionLeft ==
    (CloseReturned /\ Quiesced) => \A c \in Conns : conns[c].state # "open"

\* callers of Close that passed the compare-and-swap
Winners == {k \in Closers : closer[k].won}

\* C8: among any number of Close calls exactly one performs the teardown; every
\* other call returns nil and changes nothing but its own return.
C8_CloseIdempotent ==
    /\ [](/\ Cardinality(Winners) <= 1
          /\ closed <=> Winners # {}
          /\ cancelled => Winners # {}
          /\ \A k \in Closers :
                /\ closer[k].pc \in {"cancel", "lock"} => closer[k].won
                /\ (closer[k].pc = "done" /\ ~closer[k].won) => closer[k].ret = "nil")
    /\ [][\A k \in Closers :
             (closer[k].pc = "idle" /\ closer'[k].pc # "idle" /\ closed)
                => /\ closer'[k] = [pc |-> "done", won |-> FALSE, ret |-> "nil"]
                   /\ UNCHANGED <<conn, notify, closed, cancelled, conns, watcher, recon,
                                  getter, channels>>]_vars

C8_Witness ==
    /\ \A k \in Closers : closer[k].pc = "done"
    /\ Cardinality(Winners) = 1
    /\ \E k \in Closers : ~closer[k].won /\ closer[k].ret = "nil"
    /\ conns[1].state = "closed"

\* C9: every GetChannel call that starts after Close set the closed flag fails with
\* ErrClientClosed and opens no channel on any connection.
C9_GetChannelAfterClose ==
    \A g \in Getters :
       getter[g].afterClose =>
          /\ getter[g].pc = "done"
          /\ getter[g].ret = "ErrClientClosed"
          /\ \A ch \in channels : ch.by # g

C9_Witness ==
    \E g \in Getters :
       /\ getter[g].afterClose
       /\ getter[g].ret = "ErrClientClosed"
       /\ IsOpen(conn)

\* C10 (as claimed): a GetChannel call that finds the supervisor Connecting fails
\* with ErrChannelLost and does not try to lease a session from the dead connection.
C10_NotReadyWhileConnecting ==
    \A g \in Getters :
       getter[g].sawConnecting =>
          /\ getter[g].pc # "channel"
          /\ getter[g].pc = "done" => getter[g].ret = "ErrChannelLost"

\* C11: at most one broker connection is open at any time, whatever the
\* interleaving of connection losses, reconnect attempts and Close.
OpenConns == {c \in Conns : conns[c].state = "open"}

C11_AtMostOneOpen == Cardinality(OpenConns) <= 1

\* a reconnect has dialed a new connection, which is open, while the connection it
\* replaces is still the client's current one
C11_Witness ==
    \E c \in Conns : /\ recon[c].pc = "install"
                      /\ IsOpen(recon[c].conn)
                      /\ conn = c
                      /\ ~closed

\* C12: a channel returned by GetChannel was opened on the connection that was the
\* client's current one when the channel was opened, never on a connection that a
\* reconnect had already replaced.
C12_ChannelOnCurrentConn == \A ch \in channels : ch.on = ch.cur

\* GetChannel returned a channel of a connection that a reconnect installed
C12_Witness ==
    \E g \in Getters :
       /\ getter[g].ret = "channel"
       /\ \E ch \in channels : ch.by = g /\ ch.on > 1 /\ ch.on = conn

\* no further connection can be dialed within the model's bound
DialsExhausted == NextConnId > MaxConns

\* C13 (as claimed): whenever the client's current connection has signalled an
\* unexpected closure and the client is not closed, reconnecting goes on until the
\* client is Healthy again or is closed (dials succeed eventually under
\* RabbitFairness).
C13_ReconnectUntilHealthy ==
    \A c \in Conns :
       (conn = c /\ conns[c].notifErr /\ ~closed) ~> (Healthy \/ closed \/ DialsExhausted)

\* attempt i of the Publish call could not acquire a channel
AcqFailed(i) == pubLog[i].acq # "channel"

\* the Publish call had K attempts that failed to acquire a channel, and then one
\* that acquired it and sent the message
FailedKThenSent ==
    /\ pubLog # <<>>
    /\ pubLog[Len(pubLog)].acq = "channel"
    /\ pubLog[Len(pubLog)].sent
    /\ \A i \in 1..(Len(pubLog) - 1) : AcqFailed(i)

\* C15: a failed channel acquisition inside Publish is retried under ProducingStrat:
\* it ends the call only when it was the last attempt the policy allows, and when
\* acquisition fails on the first K < N attempts and attempt K+1 acquires and sends,
\* Publish returns nil after exactly K+1 acquisition attempts.
C15_AcquireFailureRetried ==
    rKind = "Publish" =>
       /\ (rPc = "done" /\ rRet # CtxErr /\ pubLog # <<>> /\ AcqFailed(Len(pubLog)))
             => (Len(pubLog) = rStrategy.Attempts /\ rRet = ErrOf(Len(pubLog)))
       /\ (pubPc = "idle" /\ FailedKThenSent)
             => (rPc = "done" /\ rRet = Nil /\ Len(rOutcomes) = Len(pubLog))

\* Publish returned nil on its third attempt after two failed acquisitions
C15_Witness ==
    /\ rKind = "Publish"
    /\ rPc = "done"
    /\ rRet = Nil
    /\ FailedKThenSent
    /\ Len(pubLog) = 3

C17_ClosedNotRetried ==
    (rKind = "Publish" /\ pubClosedAtCall /\ rStrategy.Attempts >= 1 /\ ~rCtxDone)
       => /\ Len(pubLog) <= 1
          /\ rSleeps = <<>>
          /\ pubLog # <<>> => (rPc = "done" /\ rRet = ErrOf(1))

\* the pool size the configuration asks for
PoolSize == IF cWorkersIn <= 0 THEN 1 ELSE cWorkersIn

\* the worker goroutines consume has started
Started == {w \in Workers : wk[w].pc # "none"}

\* the workers whose handler invocation is in flight
InFlight == {w \in Workers : wk[w].pc = "handler"}

\* the workers that hold delivery d (processDelivery has not returned)
Holders(d) == {w \in Workers : wk[w].msg = d}

\* C18: consume runs a fixed pool of W workers (W = cfg.Workers, or 1 when
\* cfg.Workers <= 0); a delivery taken from msgs is held by exactly one worker until
\* its processing (retries and acknowledgment) is finished, a worker holds one
\* delivery at a time, and at most W handler invocations are in flight.
C18_WorkerPool ==
    cPc # "off" =>
       /\ Cardinality(Started) = (IF cPc \in {"getChannel", "subscribe", "spawn"} \/
                                     cRet \in {"failed to get channel",
                                               "failed to start consumer"}
                                  THEN 0 ELSE PoolSize)
       /\ Cardinality(InFlight) <= PoolSize
       /\ \A d \in Deliveries :
             IF d < cNext
               THEN (d \in cDone /\ Holders(d) = {}) \/
                    (d \notin cDone /\ Cardinality(Holders(d)) = 1)
               ELSE d \notin cDone /\ Holders(d) = {}

\* a pool of two workers, both with a handler invocation in flight
C18_Witness ==
    /\ PoolSize = 2
    /\ Cardinality(InFlight) = 2

Covered(d) ==
    \E e \in Deliveries :
       /\ e >= d
       /\ \E k \in 1..Len(cAcks[e]) : e = d \/ cAcks[e][k].multiple

\* the workers with a handler invocation for delivery d in flight or still to come
Pending(d) == {w \in Workers : wk[w].msg = d /\ wk[w].pc \in {"handler", "wait"}}

\* C20 (as claimed): once an acknowledgment of a delivery was sent (Ack or Nack by
\* processDelivery, offset commit by processWithRetry) no handler invocation for that
\* delivery is in flight or still to come.
C20_AckAfterLastHandler ==
    /\ \A d \in Deliveries : Covered(d) => Pending(d) = {}
    /\ \A m \in Msgs :
          pCommitTries[m] > 0 => ~(pMsg = m /\ pPc \in {"handler", "backoff"})

\* C14: a channel acquired by an attempt of Publish is closed before the attempt
\* returns, whatever the attempt's result: outside the closure (between attempts,
\* during the waits, after Publish returned) the call holds no open channel.  The
\* channel consume acquired is closed when consume has returned.
C14_SessionsReleased ==
    /\ rKind = "Publish" => (pubCh <= 1 /\ (pubPc = "idle" => pubCh = 0))
    /\ cPc = "returned" => cCh = 0

\* Publish returned an error after an attempt that acquired a channel and failed to send
C14_Witness ==
    /\ rKind = "Publish"
    /\ rPc = "done"
    /\ rRet # Nil
    /\ \E i \in 1..Len(pubLog) : pubLog[i].acq = "channel" /\ ~pubLog[i].sent
    /\ pubCh = 0


----------------------------------------------------------------------------
\* Consumer.Start

\* deliveries whose handler failed
HandlerFailed == {d \in Deliveries : hLast[d] = "err"}

\* C21: Start does not return because a message failed: when Start has returned, it
\* returned ctx's error and ctx is cancelled, or ErrClientClosed and the client is
\* closed, whatever the handler answered
C21_StartReturnsOnlyOnShutdown ==
    sPc = "returned" =>
        \/ sRet = "ctx.Err" /\ cCtxDone
        \/ sRet = "ErrClientClosed" /\ cClientDone

\* a handler failed, consume went on to the next delivery, and Start returned only
\* on cancellation
C21_Witness ==
    /\ sPc = "returned"
    /\ sRet = "ctx.Err"
    /\ HandlerFailed # {}
    /\ cDone = Deliveries

\* C22: after the context passed to Start is cancelled, no worker takes a new
\* delivery from msgs
C22_NoDeliveryAfterCancel == [][cCtxDone => cNext' = cNext]_vars

\* C23: Start never makes two consecutive failed consume attempts without a backoff
\* wait in between
C23_BackoffBetweenFailures == sFailsNoWait <= 1

----------------------------------------------------------------------------
\* Cancellation of a retry executor

\* C24: when the caller's context is cancelled while the executor waits between
\* attempts, the executor leaves the wait by returning the cancellation error: it
\* does not go on to another invocation, nor return the last operation error
C24_CancelInterruptsWait ==
    [][(/\ rPc \in {"sleep", "wait"}
        /\ rI + 1 < rStrategy.Attempts
        /\ rCtxDone
        /\ rPc' # rPc) => rRet' = CtxErr]_vars

----------------------------------------------------------------------------
\* Kafka Processor: construction, backoff, dead-letter queue

\* NewProcessor has returned an error and no Processor
Rejected == pPc = "invalid"

\* NewProcessor has returned a Processor
Constructed == pPc \notin {"idle", "new", "invalid"}

\* the settings the claim calls invalid
InvalidPolicy(cfg) ==
    \/ cfg.maxAttempts <= 0
    \/ cfg.baseRetryDelay <= 0
    \/ cfg.maxRetryDelay <= 0
    \/ cfg.baseRetryDelay > cfg.maxRetryDelay

\* C25: NewProcessor returns an error and no Processor if and only if, after the
\* options, maxAttempts <= 0 or baseRetryDelay <= 0 or maxRetryDelay <= 0 or
\* baseRetryDelay > maxRetryDelay; every constructed Processor has maxAttempts > 0 and
\* 0 < baseRetryDelay <= maxRetryDelay, at construction and ever after; the defaults
\* pass validation
C25_ValidatedAtConstruction ==
    /\ Rejected => InvalidPolicy(pCfg)
    /\ Constructed => /\ ~InvalidPolicy(pCfg)
                      /\ pCfg.maxAttempts > 0
                      /\ 0 < pCfg.baseRetryDelay
                      /\ pCfg.baseRetryDelay <= pCfg.maxRetryDelay
    /\ ~InvalidPolicy([maxAttempts |-> _defaultMaxAttempts,
                       baseRetryDelay |-> _defaultBaseRetryDelay,
                       maxRetryDelay |-> _defaultMaxRetryDelay,
                       dlq |-> FALSE])

\* NewProcessor refused settings whose only fault is baseRetryDelay > maxRetryDelay
C25_Witness ==
    /\ Rejected
    /\ pCfg.maxAttempts > 0
    /\ pCfg.maxRetryDelay > 0
    /\ pCfg.baseRetryDelay > pCfg.maxRetryDelay

\* C26: PublishError returns an error if and only if the send fails; a failure to
\* encode the envelope causes neither an error return nor a skipped send: the
\* plain-text fallback is sent instead; one send is attempted per call, never more
C26_ErrorIffSendFails ==
    /\ dqSends <= 1
    /\ dqPc = "done" =>
          /\ dqSends = 1
          /\ (dqRet # Nil) <=> dqSendErr
          /\ dqRet \in {Nil, ErrOf("send")}
          /\ dqVal.fallback <=> dqMarshalErr

\* the envelope could not be encoded, the fallback was sent and the call returned nil
C26_Witness ==
    /\ dqPc = "done"
    /\ dqMarshalErr
    /\ dqVal.fallback
    /\ dqSends = 1
    /\ dqRet = Nil

\* the handler failed on all maxAttempts attempts of message m
Exhausted(m) == AllFail(hCalls[m]) /\ Len(hCalls[m]) = pCfg.maxAttempts

\* C27: without a DLQ, a message whose handler fails on all maxAttempts attempts is
\* acknowledged after exhaustion: its offset commit is attempted exactly once, and
\* not before the last attempt has failed
C27_CommitWithoutDlq ==
    (ProcRunning /\ ~pCfg.dlq) =>
       \A m \in Msgs :
          /\ (AllFail(hCalls[m]) /\ pCommitTries[m] > 0) => Exhausted(m)
          /\ Exhausted(m) => /\ pCommitTries[m] <= 1
                             /\ dlqTries[m] = 0
                             /\ (pCommitTries[m] = 0) <=> (pMsg = m /\ pPc \in {"exhausted", "finalCommit"})

\* without a DLQ, a message went through all its attempts in vain and was committed
C27_Witness ==
    /\ ProcRunning
    /\ ~pCfg.dlq
    /\ pCfg.maxAttempts = MaxAttemptsBound
    /\ \E m \in Msgs : Exhausted(m) /\ pCommitTries[m] = 1 /\ pCommitted[m] = 1

----------------------------------------------------------------------------
\* Waits of the retry executors

\* C28: an operation that fails on all N attempts incurs exactly N-1 waits: no wait
\* follows the final failed attempt (for a policy with a positive delay and a
\* multiplier of at least 1)
C28_WaitsOnlyBetweenAttempts ==
    (/\ rPc = "done"
     /\ rStrategy.Attempts >= 1
     /\ rStrategy.Delay > 0
     /\ rStrategy.Backoff2 >= 2
     /\ Len(rOutcomes) = rStrategy.Attempts
     /\ AllFail(rOutcomes))
    => Len(rSleeps) = rStrategy.Attempts - 1

\* processWithRetry is inside its retry loop: currentBackoff is live
InRetryLoop == pPc \in {"handler", "backoff"}

\* C29: in the Processor's retry loop baseRetryDelay <= currentBackoff <=
\* maxRetryDelay, and the jittered delay of every wait lies in [0, maxRetryDelay]
C29_BackoffBounded ==
    InRetryLoop =>
        /\ pCfg.baseRetryDelay <= pBackoff
        /\ pBackoff <= pCfg.maxRetryDelay
        /\ 0 <= pJitter
        /\ pJitter <= pCfg.maxRetryDelay

\* after a wait the doubled backoff was cut to maxRetryDelay, and so is the jitter
\* drawn for the next wait
C29_Witness ==
    /\ pPc = "backoff"
    /\ pAttempt >= 2
    /\ pCfg.baseRetryDelay * _backoffMultiplier > pCfg.maxRetryDelay
    /\ pBackoff = pCfg.maxRetryDelay
    /\ pJitter = pCfg.maxRetryDelay

----------------------------------------------------------------------------
\* The delay between reconnect attempts

\* C30: the wait before the next reconnect attempt, in reconnectLoop and in
\* backoffWait, is at most the ceiling delay, however many dials have failed in a row
C30_DelayCeiling == dlWaits > 0 => dlLast <= maxDelay

----------------------------------------------------------------------------
\* Kafka Processor: the end of processWithRetry, shutdown, order of the messages

\* C31: when all attempts of a message failed and a DLQ is configured, PublishError
\* is called and, whatever it answers, the offset commit of the message is attempted
C31_CommitRegardlessOfDlq ==
    (ProcRunning /\ pCfg.dlq) =>
       \A m \in Msgs :
          (Exhausted(m) /\ Finished(m)) => /\ dlqTries[m] = 1
                                           /\ pCommitTries[m] >= 1

\* the handler succeeded on some attempt of message m
Succeeded(m) == \E i \in 1..Len(hCalls[m]) : hCalls[m][i]

\* C32: PublishError is called for a message only after its handler failed on all
\* maxAttempts attempts, at most once, and never for a message whose handler
\* succeeded on some attempt; what it sent for the message is exactly what the DLQ
\* topic holds of it
C32_EnvelopeOnlyOnTerminalFailure ==
    ProcRunning =>
       \A m \in Msgs :
          /\ dlqTries[m] <= 1
          /\ dlqTries[m] > 0 => Exhausted(m)
          /\ Succeeded(m) => (dlqTries[m] = 0 /\ Envs(m) = {})
          /\ Cardinality(Envs(m)) <= dlqTries[m]

\* one message went to the DLQ after all its attempts, another succeeded on a retry
\* and went nowhere
C32_Witness ==
    /\ ProcRunning
    /\ pCfg.dlq
    /\ pCfg.maxAttempts = MaxAttemptsBound
    /\ \E m \in Msgs : Exhausted(m) /\ dlqTries[m] = 1 /\ Cardinality(Envs(m)) = 1
    /\ \E m \in Msgs : Succeeded(m) /\ Len(hCalls[m]) > 1 /\ Finished(m)

----------------------------------------------------------------------------
\* ExecuteInTransaction

\* the doTransaction call number k returned an error classified non-retryable
NonRetryableAt(k) == k <= Len(txLog) /\ txLog[k] # TxOk /\ ~txLog[k].retryable

\* every doTransaction call so far returned an error classified retryable
AllRetryable == \A k \in 1..Len(txLog) : txLog[k] # TxOk /\ txLog[k].retryable

\* C33 (as claimed): a first error classified non-retryable ends the loop at once:
\* the transaction function was invoked exactly once, no wait occurred and that error
\* is returned; retryable errors are retried up to maxAttempts invocations in total
C33_Original ==
    txPc # "off" =>
       /\ NonRetryableAt(1) => /\ txPc = "done"
                               /\ txFn = 1
                               /\ txWaits = 0
                               /\ txRet = ErrOf(1)
       /\ txFn <= txCfg.maxAttempts
       /\ (txPc = "done" /\ AllRetryable /\ txRet # CtxErr) => txFn = txCfg.maxAttempts

\* C33 (amended): an error classified non-retryable, on whichever attempt, ends the
\* loop at once: it is the last doTransaction call, no wait follows it and its error
\* is returned; fn ran at most once per doTransaction call, and not at all in a call
\* whose BeginTx failed; retryable errors are retried up to maxAttempts calls in total
C33_Amended ==
    txPc # "off" =>
       /\ \A k \in 1..Len(txLog) :
             NonRetryableAt(k) => /\ txPc = "done"
                                  /\ k = Len(txLog)
                                  /\ txWaits = k - 1
                                  /\ txRet = ErrOf(k)
       /\ Len(txLog) <= txCfg.maxAttempts
       /\ txFn = Cardinality({k \in 1..Len(txLog) : txLog[k].stage # "begin"})
       /\ (txPc = "done" /\ AllRetryable /\ txRet # CtxErr) =>
             /\ Len(txLog) = txCfg.maxAttempts
             /\ txRet = ErrOf(txCfg.maxAttempts)

\* a retryable failure was retried, and the retry ended on a non-retryable error of fn
C33_Witness ==
    /\ txPc = "done"
    /\ Len(txLog) = 2
    /\ txCfg.maxAttempts = MaxAttemptsBound
    /\ txLog[1].retryable
    /\ NonRetryableAt(2)
    /\ txLog[2].stage = "fn"
    /\ txFn = 2
    /\ txRet = ErrOf(2)

----------------------------------------------------------------------------
\* Kafka Processor: shutdown

\* C34: after the context given to Start is cancelled the processing goroutine
\* fetches no further message
C34_NoFetchAfterCancel == [][pCtxDone => pNext' = pNext]_vars

\* C35: at most one reconnectLoop is running at any time, the reconnectLoop a
\* watcher starts belongs to the one notification that watcher received, and the
\* close channel of an established connection is watched by at most one watcher,
\* the one connect started for that connection.
ActiveRecons == {c \in Conns : recon[c].pc \notin {"none", "done"}}
WaitingWatchers == {c \in Conns : watcher[c].pc = "waiting"}

C35_OneReconnectLoop ==
    /\ Cardinality(ActiveRecons) <= 1
    /\ \A c \in WaitingWatchers : watcher[c].ch = c
    /\ \A c \in ActiveRecons : watcher[c].pc = "done"

\* the watcher of a connection that a reconnect installed has itself been notified
\* of a loss and its reconnectLoop is dialing
C35_Witness ==
    \E c \in Conns : c > 1 /\ recon[c].pc = "dial" /\ recon[1].pc = "done"

\* C36: Start never returns nil: every return of consume carries an error, the only
\* values Start returns are ctx's error and ErrClientClosed, and Start has not
\* returned while ctx is not cancelled and the client is not closed.
ConsumeErrors == {"failed to get channel", "failed to start consumer", "ctx.Err",
                  "ErrClientClosed", "ErrWorkersTerminated"}

C36_StartNeverReturnsNil ==
    /\ (sPc # "off" /\ cPc = "returned") => cRet \in ConsumeErrors
    /\ sPc = "returned" => sRet \in {"ctx.Err", "ErrClientClosed"}
    /\ (sPc # "off" /\ ~cCtxDone /\ ~cClientDone) => sPc # "returned"

\* a consume call ended because its workers terminated, Start went on looping and
\* returned only when the client was closed
C36_Witness ==
    /\ sPc = "returned"
    /\ sRet = "ErrClientClosed"
    /\ cRet = "ErrWorkersTerminated"
    /\ ~cCtxDone

\* C37: when ctx is cancelled while processWithRetry waits between two handler
\* attempts of a message, processing of that message ends with that step, and the
\* message then gets no further handler call, no DLQ publish and no commit.
StoppedInWait(m) ==
    /\ pMsg = m
    /\ pPc = "fetch"
    /\ pCtxDone
    /\ AllFail(hCalls[m])
    /\ 0 < Len(hCalls[m])
    /\ Len(hCalls[m]) < pCfg.maxAttempts

C37_CancelInWaitStops ==
    [][/\ (pPc = "backoff" /\ ~pCtxDone /\ pCtxDone') => StoppedInWait(pMsg)'
       /\ \A m \in Msgs :
             StoppedInWait(m) =>
                /\ hCalls'[m] = hCalls[m]
                /\ dlqTries'[m] = 0
                /\ pCommitTries'[m] = 0
                /\ pCommitted'[m] = 0]_vars

\* the wait after a failed attempt of a message was cut short: the message has fewer
\* than maxAttempts handler calls, all failed, is not committed and not in the DLQ,
\* and the loop is back at Fetch
C37_Witness ==
    \E m \in Msgs : /\ StoppedInWait(m)
                     /\ pCfg.dlq
                     /\ dlqTries[m] = 0
                     /\ pCommitTries[m] = 0

\* C38: messages are processed one at a time in fetch order: a message is fetched
\* only when the processing of every earlier one has ended, and it is the next in
\* order.  A message whose commit was withheld because the DLQ publish failed does
\* not stop the loop and is not processed again: later messages are fetched,
\* processed and committed.
Withheld(m) ==
    /\ Finished(m)
    /\ Exhausted(m)
    /\ dlqTries[m] = 1
    /\ Envs(m) = {}
    /\ pCommitTries[m] = 0

NoTaskStarted ==
    /\ \A c \in Conns : watcher[c].pc = "none"
    /\ \A c \in Conns : recon[c].pc = "none"

C39_NoRetryOnInitialDial ==
    ncPc # "off" =>
       /\ ncDials <= 1
       /\ ncIn.URL = "" =>
             /\ ncDials = 0
             /\ ncPc = "returned" => ncRet = [client |-> FALSE, err |-> "ErrMissingURL"]
             /\ NoTaskStarted
       /\ (ncPc = "returned" /\ ncRet.err = "ErrMissingURL") => ncIn.URL = ""
       /\ ncDialErr =>
             /\ ncPc = "returned"
             /\ ncRet = [client |-> FALSE, err |-> "initial connect failed: dial error"]
             /\ cancelled
             /\ conn = 0
             /\ OpenConns = {}
             /\ NoTaskStarted
       /\ (ncPc = "returned" /\ ~ncRet.client) => (ncIn.URL = "" \/ ncDialErr)

\* the one dial NewClient made failed and NewClient has returned
C39_Witness ==
    /\ ncPc = "returned"
    /\ ncDialErr
    /\ ncDials = 1
    /\ ncCfg.ConnectTimeout = defaultConnectTimeout

\* C40: with max > 0 every result of index() lies in 0..max-1 and, in the order in
\* which the calls took the mutex, any k*max consecutive calls return each index
\* exactly k times, whichever goroutines made them; with max <= 0 index() returns 0.
CountIn(j, lo, hi) == Cardinality({i \in lo..hi : bLog[i].res = j})

C40_RoundRobin ==
    bCaller[1].pc # "off" =>
       IF bMax > 0
         THEN /\ bIdx \in 0..(bMax - 1)
              /\ \A i \in 1..Len(bLog) : bLog[i].res \in 0..(bMax - 1)
              /\ \A lo \in 1..Len(bLog), k \in 1..MaxCalls :
                    lo + k * bMax - 1 <= Len(bLog) =>
                       \A j \in 0..(bMax - 1) : CountIn(j, lo, lo + k * bMax - 1) = k
         ELSE \A i \in 1..Len(bLog) : bLog[i].res = 0

\* two goroutines have shared two full rounds over at least two replicas
C40_Witness ==
    /\ bMax >= 2
    /\ Len(bLog) >= 2 * bMax
    /\ \E i, j \in 1..Len(bLog) : bLog[i].by # bLog[j].by

====
